---- MODULE Spec2Model ----
(***************************************************************************)
(* A model of the volume loader and ray-casting volume of                  *)
(* m-pilia/volume-raycasting: the VTK structured-points parser             *)
(* (src/src/vtkvolume.cpp), its normalisation to 8 bits, the               *)
(* RayCastVolume that uploads the result as a 3D texture                   *)
(* (src/src/raycastvolume.cpp), the RayCastCanvas that draws it            *)
(* (src/src/raycastcanvas.cpp) and the handlers of the MainWindow          *)
(* (src/src/mainwindow.cpp).                                               *)
(*                                                                         *)
(* Numbers.  Sample values are integers.  A C++ double is counted in       *)
(* halves: the double holding the integral value v is Dbl(v) = 2*v, so     *)
(* the one non-integral double the code uses,                              *)
(* std::numeric_limits<double>::min() (the smallest positive normal        *)
(* double, about 2.2e-308), has a code of its own, the odd number 1,       *)
(* strictly between Dbl(0) and Dbl(1) as it is on the real line.           *)
(* The platform is the one the program is built for: 8-bit bytes, plain    *)
(* char signed, LP64 (long is 8 bytes), IEEE-754 float and double.         *)
(***************************************************************************)
EXTENDS Integers, Sequences, FiniteSets, TLC

\* ------------------------------------------------------------------------
\* Bounds of the model
\* ------------------------------------------------------------------------

\* Largest number of voxels of an enumerated volume (nx*ny*nz).
MaxVoxels == 2

\* Largest magnitude a value is held with.  The samples of the files are
\* far below it; bytes read as a wider type than the one they were written
\* as can exceed it, and are held as Huge.
Huge == 2097152

\* ------------------------------------------------------------------------
\* Small helpers on sequences
\* ------------------------------------------------------------------------

Range(s) == {s[i] : i \in DOMAIN s}

Reverse(s) == [i \in 1..Len(s) |-> s[Len(s) + 1 - i]]

Front(s) == SubSeq(s, 1, Len(s) - 1)

Last(s) == s[Len(s)]

Zeros(n) == [i \in 1..n |-> 0]

RECURSIVE Flatten(_)
Flatten(ss) ==
    IF Len(ss) = 0 THEN <<>>
    ELSE IF Len(ss) = 1 THEN ss[1]
    ELSE Flatten(SubSeq(ss, 1, Len(ss) \div 2))
         \o Flatten(SubSeq(ss, Len(ss) \div 2 + 1, Len(ss)))

RECURSIVE Pow2(_)
Pow2(n) == IF n = 0 THEN 1 ELSE 2 * Pow2(n - 1)

MinOf(S) == CHOOSE x \in S : \A y \in S : x <= y

MaxOf(S) == CHOOSE x \in S : \A y \in S : x >= y

\* ------------------------------------------------------------------------
\* Doubles
\* ------------------------------------------------------------------------

\* The double holding the integral value v.
Dbl(v) == 2 * v

\* std::numeric_limits<double>::min(): positive, below every positive sample.
DBL_MIN == 1

\* std::numeric_limits<double>::max(): above every sample.
DBL_MAX == 1073741823

\* a - b in double arithmetic.  DBL_MIN is absorbed by any non-zero operand
\* (|b| >= 1 is more than 2^53 times DBL_MIN); exact otherwise.
DSub(a, b) ==
    IF a = DBL_MIN /\ b = DBL_MIN THEN 0
    ELSE IF a = DBL_MIN /\ b # 0 THEN 0 - b
    ELSE IF b = DBL_MIN /\ a # 0 THEN a
    ELSE a - b

\* ------------------------------------------------------------------------
\* Element types: the C++ types the templates are instantiated with
\* ------------------------------------------------------------------------

CType == {"char", "unsigned char", "short", "unsigned short", "int",
          "unsigned int", "long", "unsigned long", "float", "double"}

SizeOf(T) ==
    CASE T \in {"char", "unsigned char"} -> 1
      [] T \in {"short", "unsigned short"} -> 2
      [] T \in {"int", "unsigned int", "float"} -> 4
      [] T \in {"long", "unsigned long", "double"} -> 8

Kind(T) ==
    CASE T \in {"char", "short", "int", "long"} -> "signed"
      [] T \in {"unsigned char", "unsigned short", "unsigned int",
                "unsigned long"} -> "unsigned"
      [] T \in {"float", "double"} -> "float"

\* ------------------------------------------------------------------------
\* Values of byte patterns (most significant byte first)
\* ------------------------------------------------------------------------

RECURSIVE Magnitude(_)
Magnitude(b) ==
    IF b = <<>> THEN 0
    ELSE LET m == Magnitude(Front(b))
         IN IF m >= Huge \div 256 THEN Huge ELSE 256 * m + Last(b)

Complement(b) == [i \in 1..Len(b) |-> 255 - b[i]]

\* Two's complement.
SignedValue(b) ==
    IF b[1] >= 128 THEN (0 - Magnitude(Complement(b))) - 1 ELSE Magnitude(b)

\* IEEE-754 binary32 (1 sign, 8 exponent, 23 fraction bits).  The model
\* holds integral values: the patterns of the files all are; of any other
\* pattern the fraction is cut.
Float32Value(b) ==
    LET s == b[1] \div 128
        e == (b[1] % 128) * 2 + b[2] \div 128
        m == (b[2] % 128) * 65536 + b[3] * 256 + b[4]
        mag == IF e < 127 THEN 0
               ELSE IF e - 127 > 20 THEN Huge
               ELSE (8388608 + m) \div Pow2(23 - (e - 127))
    IN IF s = 1 THEN 0 - mag ELSE mag

\* IEEE-754 binary64 (1 sign, 11 exponent, 52 fraction bits), likewise.
Float64Value(b) ==
    LET s == b[1] \div 128
        e == (b[1] % 128) * 16 + b[2] \div 16
        m == (b[2] % 16) * 65536 + b[3] * 256 + b[4]
        mag == IF e < 1023 THEN 0
               ELSE IF e - 1023 > 20 THEN Huge
               ELSE (1048576 + m) \div Pow2(20 - (e - 1023))
    IN IF s = 1 THEN 0 - mag ELSE mag

\* The value an object of type T has when its bytes, most significant
\* first, are b.
ValueOf(T, b) ==
    CASE Kind(T) = "unsigned" -> Magnitude(b)
      [] Kind(T) = "signed" -> SignedValue(b)
      [] T = "float" -> Float32Value(b)
      [] T = "double" -> Float64Value(b)

\* ------------------------------------------------------------------------
\* Byte patterns of values (most significant byte first)
\* ------------------------------------------------------------------------

RECURSIVE NatBytes(_, _)
NatBytes(v, n) ==
    IF n = 0 THEN <<>> ELSE Append(NatBytes(v \div 256, n - 1), v % 256)

RECURSIVE Log2(_)
Log2(a) == IF a <= 1 THEN 0 ELSE 1 + Log2(a \div 2)

Abs(v) == IF v < 0 THEN 0 - v ELSE v

Float32Bytes(v) ==
    IF v = 0 THEN Zeros(4)
    ELSE LET s == IF v < 0 THEN 1 ELSE 0
             x == Log2(Abs(v))
             e == x + 127
             m == (Abs(v) - Pow2(x)) * Pow2(23 - x)
         IN <<s * 128 + e \div 2, (e % 2) * 128 + m \div 65536,
              (m \div 256) % 256, m % 256>>

Float64Bytes(v) ==
    IF v = 0 THEN Zeros(8)
    ELSE LET s == IF v < 0 THEN 1 ELSE 0
             x == Log2(Abs(v))
             e == x + 1023
             m == (Abs(v) - Pow2(x)) * Pow2(20 - x)
         IN <<s * 128 + e \div 16, (e % 16) * 16 + m \div 65536,
              (m \div 256) % 256, m % 256, 0, 0, 0, 0>>

\* The bytes, most significant first, of the object of type T holding v.
BytesOf(T, v) ==
    CASE T = "float" -> Float32Bytes(v)
      [] T = "double" -> Float64Bytes(v)
      [] v >= 0 -> NatBytes(v, SizeOf(T))
      [] OTHER -> Complement(NatBytes((0 - v) - 1, SizeOf(T)))

\* ------------------------------------------------------------------------
\* The host's memory
\* ------------------------------------------------------------------------

\* The value of the object of type T whose bytes in memory order are mem,
\* on a little-endian (le) or big-endian host.
HostValue(T, mem, le) == ValueOf(T, IF le THEN Reverse(mem) ELSE mem)

\* The bytes in memory order of the object of type T holding v.
HostBytes(T, v, le) == IF le THEN Reverse(BytesOf(T, v)) ELSE BytesOf(T, v)

\* ------------------------------------------------------------------------
\* Files
\* ------------------------------------------------------------------------

\* A token of a header line: a number (what %d and %f convert) or a word.
Num(n) == [isnum |-> TRUE, n |-> n, w |-> ""]

Word(w) == [isnum |-> FALSE, n |-> 0, w |-> w]

\* A header line: the text it starts with (what substr(0, k) is compared
\* to) and the whitespace-separated tokens after it.
Line(key, args) == [key |-> key, args |-> args]

\* std::string::empty() of a line read by std::getline.
IsEmptyLine(l) == l.key = "" /\ l.args = <<>>

\* The number of leading tokens of args, among the first k, that sscanf
\* converts with %d or %f.
RECURSIVE ScanNums(_, _)
ScanNums(args, k) ==
    IF k = 0 \/ args = <<>> \/ ~Head(args).isnum THEN 0
    ELSE 1 + ScanNums(Tail(args), k - 1)

\* ------------------------------------------------------------------------
\* VTKVolume
\* ------------------------------------------------------------------------

DataType == {"Int8", "Uint8", "Int16", "Uint16", "Int32", "Uint32",
             "Int64", "Uint64", "Float", "Double"}

\* What a default-constructed VTKVolume holds: the tuples and the pair are
\* value-initialised, the vector is empty, and m_datatype, an enum with no
\* initialiser, is indeterminate.
VTKVolume ==
    [m_datatype |-> "indeterminate",
     m_size |-> <<0, 0, 0>>,
     m_origin |-> <<0, 0, 0>>,
     m_spacing |-> <<0, 0, 0>>,
     m_range |-> [first |-> 0, second |-> 0],
     m_data |-> <<>>]

\* The outcome of a member function: the object afterwards and the
\* message of the VTKReadError thrown ("" when it returns).
Returned(vol) == [vol |-> vol, err |-> ""]

Thrown(vol, what) == [vol |-> vol, err |-> what]

\* A scan for the marker in which a later line overrides an earlier one.
RECURSIVE is_binary_last_wins(_, _)
is_binary_last_wins(header, i) ==
    IF i > Len(header) THEN ""
    ELSE LET later == is_binary_last_wins(header, i + 1)
         IN IF later # "" THEN later
            ELSE IF header[i].key \in {"BINARY", "ASCII"} THEN header[i].key
            ELSE ""

\* static bool is_binary(header): "BINARY", "ASCII", or "" when it throws.
RECURSIVE is_binary_from(_, _)
is_binary_from(header, i) ==
    IF i > Len(header) THEN ""
    ELSE IF header[i].key = "BINARY" THEN "BINARY"
    ELSE IF header[i].key = "ASCII" THEN "ASCII"
    ELSE is_binary_from(header, i + 1)

is_binary(header) == is_binary_from(header, 1)

RECURSIVE read_dimensions_from(_, _, _)
read_dimensions_from(vol, header, i) ==
    IF i > Len(header) THEN Returned(vol)
    ELSE IF header[i].key = "DIMENSIONS"
    THEN IF ScanNums(header[i].args, 3) # 3
         THEN Thrown(vol, "Cannot read volume dimension.")
         ELSE read_dimensions_from(
                  [vol EXCEPT !.m_size = <<header[i].args[1].n,
                                           header[i].args[2].n,
                                           header[i].args[3].n>>],
                  header, i + 1)
    ELSE read_dimensions_from(vol, header, i + 1)

read_dimensions(vol, header) == read_dimensions_from(vol, header, 1)

RECURSIVE read_origin_from(_, _, _)
read_origin_from(vol, header, i) ==
    IF i > Len(header) THEN Returned(vol)
    ELSE IF header[i].key = "ORIGIN"
    THEN IF ScanNums(header[i].args, 3) # 3
         THEN Thrown(vol, "Cannot read volume origin.")
         ELSE read_origin_from(
                  [vol EXCEPT !.m_origin = <<header[i].args[1].n,
                                             header[i].args[2].n,
                                             header[i].args[3].n>>],
                  header, i + 1)
    ELSE read_origin_from(vol, header, i + 1)

read_origin(vol, header) == read_origin_from(vol, header, 1)

RECURSIVE read_spacing_from(_, _, _)
read_spacing_from(vol, header, i) ==
    IF i > Len(header) THEN Returned(vol)
    ELSE IF header[i].key = "SPACING"
    THEN IF ScanNums(header[i].args, 3) # 3
         THEN Thrown(vol, "Cannot read volume spacing.")
         ELSE read_spacing_from(
                  [vol EXCEPT !.m_spacing = <<header[i].args[1].n,
                                              header[i].args[2].n,
                                              header[i].args[3].n>>],
                  header, i + 1)
    ELSE read_spacing_from(vol, header, i + 1)

read_spacing(vol, header) == read_spacing_from(vol, header, 1)

\* The type keywords of a SCALARS line and the tag each one sets.
TypeKeyword ==
    [s \in {"unsigned_char", "char", "unsigned_short", "short",
            "unsigned_int", "int", "unsigned_long", "long", "float",
            "double"} |->
        CASE s = "unsigned_char" -> "Uint8"
          [] s = "char" -> "Int8"
          [] s = "unsigned_short" -> "Uint16"
          [] s = "short" -> "Int16"
          [] s = "unsigned_int" -> "Uint32"
          [] s = "int" -> "Int32"
          [] s = "unsigned_long" -> "Uint64"
          [] s = "long" -> "Int64"
          [] s = "float" -> "Float"
          [] s = "double" -> "Double"]

\* sscanf(line, "%*s %*s %s", buffer) skips the directive and the name of
\* the array and converts the third token, whatever it is.
RECURSIVE read_data_type_from(_, _, _)
read_data_type_from(vol, header, i) ==
    IF i > Len(header) THEN Returned(vol)
    ELSE IF header[i].key = "SCALARS"
    THEN IF Len(header[i].args) < 2
         THEN Thrown(vol, "Cannot read volume data type.")
         ELSE LET t == header[i].args[2]
              IN IF ~t.isnum /\ t.w \in DOMAIN TypeKeyword
                 THEN read_data_type_from(
                          [vol EXCEPT !.m_datatype = TypeKeyword[t.w]],
                          header, i + 1)
                 ELSE Thrown(vol, "Unsupported volume data type.")
    ELSE read_data_type_from(vol, header, i + 1)

read_data_type(vol, header) == read_data_type_from(vol, header, 1)

\* ------------------------------------------------------------------------
\* Reading the samples
\* ------------------------------------------------------------------------

\* A swap whose loop runs over all N indices: every pair is exchanged twice.
RECURSIVE swap_every_index_from(_, _, _)
swap_every_index_from(p, N, i) ==
    IF i >= N THEN p
    ELSE swap_every_index_from(
             [p EXCEPT ![i + 1] = p[N - i], ![N - i] = p[i + 1]], N, i + 1)

swap_byte_order_every_index(p, N) == swap_every_index_from(p, N, 0)

\* template<size_t N> swap_byte_order(p): the loop, from index i (0-based).
RECURSIVE swap_byte_order_from(_, _, _)
swap_byte_order_from(p, N, i) ==
    IF i >= N \div 2 THEN p
    ELSE swap_byte_order_from(
             [p EXCEPT ![i + 1] = p[N - i], ![N - i] = p[i + 1]], N, i + 1)

swap_byte_order(p, N) == swap_byte_order_from(p, N, 0)

\* The characters operator>> skips: space, \t, \n, \v, \f, \r.
IsSpace(c) == c = 32 \/ (c >= 9 /\ c <= 13)

IsDigit(c) == c >= 48 /\ c <= 57

RECURSIVE SkipSpace(_, _)
SkipSpace(bytes, pos) ==
    IF pos <= Len(bytes) /\ IsSpace(bytes[pos]) THEN SkipSpace(bytes, pos + 1)
    ELSE pos

\* The digits from pos on: [value, pos after them].
RECURSIVE ScanDigits(_, _, _)
ScanDigits(bytes, pos, acc) ==
    IF pos <= Len(bytes) /\ IsDigit(bytes[pos])
    THEN ScanDigits(bytes, pos + 1, 10 * acc + (bytes[pos] - 48))
    ELSE [value |-> acc, pos |-> pos]

\* One `file >> voxel` on a stream in state st = [pos, fail, voxel], voxel
\* being the bytes of the variable in memory (<<>> while it is
\* uninitialised).  A stream that is not good(), or that ends while the
\* sentry skips white space, sets failbit and leaves voxel alone; a
\* character type takes the next character; an arithmetic type takes a
\* decimal literal, or fails and stores zero when there is none, or fails
\* and stores the nearest limit of the type when the literal is beyond it
\* (the literals of the files are within the 4- and 8-byte types).
Extract(T, bytes, st, le) ==
    LET p == SkipSpace(bytes, st.pos)
    IN IF st.fail THEN st
       ELSE IF p > Len(bytes) THEN [st EXCEPT !.pos = p, !.fail = TRUE]
       ELSE IF SizeOf(T) = 1
       THEN [pos |-> p + 1, fail |-> FALSE, voxel |-> <<bytes[p]>>]
       ELSE LET neg == bytes[p] = 45
                q == IF bytes[p] = 45 \/ bytes[p] = 43 THEN p + 1 ELSE p
                d == ScanDigits(bytes, q, 0)
                v == IF neg THEN 0 - d.value ELSE d.value
            IN IF d.pos = q
               THEN [pos |-> q, fail |-> TRUE, voxel |-> HostBytes(T, 0, le)]
               ELSE IF T = "short" /\ v > 32767
               THEN [pos |-> d.pos, fail |-> TRUE,
                     voxel |-> HostBytes(T, 32767, le)]
               ELSE IF T = "short" /\ v < 0 - 32768
               THEN [pos |-> d.pos, fail |-> TRUE,
                     voxel |-> HostBytes(T, 0 - 32768, le)]
               ELSE IF T = "unsigned short" /\ Abs(v) > 65535
               THEN [pos |-> d.pos, fail |-> TRUE,
                     voxel |-> HostBytes(T, 65535, le)]
               ELSE [pos |-> d.pos,
                     \* the literal ran into the end of the file: eofbit
                     fail |-> d.pos > Len(bytes),
                     voxel |-> HostBytes(T, v, le)]

\* The ASCII loop of read_data: count extractions, each pushed back.
RECURSIVE ExtractAll(_, _, _, _, _)
ExtractAll(T, bytes, st, count, le) ==
    IF count = 0 THEN <<>>
    ELSE LET nx == Extract(T, bytes, st, le)
         IN <<nx.voxel>> \o ExtractAll(T, bytes, nx, count - 1, le)

\* The bytes an uninitialised object may hold: every byte the same, one of
\* these.
UninitialisedFill == {0, 255}

\* The loop that finds the range, from element i of the values.
RECURSIVE FindRange(_, _, _, _)
FindRange(values, range, i, element_count) ==
    IF i > element_count THEN range
    ELSE LET second == IF Dbl(values[i]) > range.second THEN Dbl(values[i])
                       ELSE range.second
             first == IF Dbl(values[i]) < range.first THEN Dbl(values[i])
                      ELSE range.first
         IN FindRange(values, [first |-> first, second |-> second], i + 1,
                      element_count)

\* template<typename T> read_data(file, binary, element_count, image_data,
\* range): the set of [image_data, range] it may leave, given the bytes
\* of the file after the header.  Each element of data is the sequence of
\* its bytes in memory.
read_data(T, payload, binary, element_count, le) ==
    LET size == SizeOf(T)
        want == size * element_count
        got == IF Len(payload) >= want THEN SubSeq(payload, 1, want)
               ELSE payload \o Zeros(want - Len(payload))
        raw == [i \in 1..element_count |->
                   SubSeq(got, (i - 1) * size + 1, i * size)]
        swapped == [i \in 1..element_count |->
                       IF le /\ size > 1 THEN swap_byte_order(raw[i], size)
                       ELSE raw[i]]
        pushed == ExtractAll(T, payload,
                             [pos |-> 1, fail |-> FALSE, voxel |-> <<>>],
                             element_count, le)
        datas == IF binary THEN {swapped}
                 ELSE IF \E i \in DOMAIN pushed : pushed[i] = <<>>
                 THEN {[i \in 1..element_count |-> Zeros(size)]
                       \o [i \in DOMAIN pushed |->
                              IF pushed[i] = <<>>
                              THEN [k \in 1..size |-> f] ELSE pushed[i]]
                       : f \in UninitialisedFill}
                 ELSE {[i \in 1..element_count |-> Zeros(size)] \o pushed}
    IN {[image_data |-> Flatten(data),
         range |-> FindRange([i \in DOMAIN data |-> HostValue(T, data[i], le)],
                             [first |-> DBL_MAX, second |-> DBL_MIN],
                             1, element_count)]
        : data \in datas}

\* ------------------------------------------------------------------------
\* Normalising to 8 bits
\* ------------------------------------------------------------------------

\* num / den in double arithmetic, by kind: a finite quotient (kept as the
\* fraction), an infinity, or NaN.
Quotient(num, den) ==
    IF den = 0 \/ (den = DBL_MIN /\ num # 0)
    THEN IF num = 0 /\ den = 0 THEN [kind |-> "nan", num |-> 0, den |-> 1]
         ELSE [kind |-> "inf", num |-> num, den |-> 1]
    ELSE [kind |-> "finite", num |-> num, den |-> den]

\* The integral part of a finite quotient (truncation toward zero).
Truncated(q) ==
    IF (q.num >= 0) = (q.den > 0) THEN Abs(q.num) \div Abs(q.den)
    ELSE 0 - (Abs(q.num) \div Abs(q.den))

\* The conversions of a double that no unsigned char can hold, left
\* undefined by the language: the low byte of the truncated 32-bit
\* integer (x86: the "integer indefinite" 0x80000000 for NaN and
\* infinities), or saturation.
Conversions == {"wrap", "saturate"}

\* static_cast<unsigned char>(q).
CastToUnsignedChar(q, conv) ==
    IF q.kind = "finite" /\ Truncated(q) >= 0 /\ Truncated(q) <= 255
    THEN Truncated(q)
    ELSE IF conv = "wrap"
    THEN IF q.kind = "finite" THEN Truncated(q) % 256 ELSE 0
    ELSE IF q.kind = "nan" \/ q.num < 0 \/ (q.kind = "finite" /\ Truncated(q) < 0)
    THEN 0 ELSE 255

\* The double the normalisation computes for the value p.
Normalised(p, range) ==
    Quotient(255 * DSub(Dbl(p), range.first), DSub(range.second, range.first))

\* A normalisation that forgets to take the minimum off the value.
cast_and_normalise_no_offset(T, data, range, element_count, le) ==
    LET size == SizeOf(T)
        p == [i \in 1..element_count |->
                 HostValue(T, SubSeq(data, (i - 1) * size + 1, i * size), le)]
    IN {[i \in 1..element_count |->
            CastToUnsignedChar(
                Quotient(255 * Dbl(p[i]), DSub(range.second, range.first)),
                conv)]
        : conv \in Conversions}

\* template<typename T> cast_and_normalise(data, range, normal_data,
\* element_count): the set of normal_data it may leave.
cast_and_normalise(T, data, range, element_count, le) ==
    LET size == SizeOf(T)
        p == [i \in 1..element_count |->
                 HostValue(T, SubSeq(data, (i - 1) * size + 1, i * size), le)]
    IN {[i \in 1..element_count |->
            CastToUnsignedChar(Normalised(p[i], range), conv)]
        : conv \in Conversions}

\* ------------------------------------------------------------------------
\* VTKVolume::load_volume and VTKVolume::uint8_normalised
\* ------------------------------------------------------------------------

\* The element type read_data is instantiated with for each tag: the
\* switch of load_volume.
LoadElementType(tag) ==
    CASE tag = "Int8" -> "char"
      [] tag = "Uint8" -> "unsigned char"
      [] tag = "Int16" -> "unsigned short"
      [] tag = "Uint16" -> "short"
      [] tag = "Int32" -> "unsigned int"
      [] tag = "Uint32" -> "int"
      [] tag = "Int64" -> "unsigned long"
      [] tag = "Uint64" -> "long"
      [] tag = "Float" -> "float"
      [] tag = "Double" -> "double"

\* The element type cast_and_normalise is instantiated with for each tag:
\* the switch of uint8_normalised.
NormaliseElementType(tag) ==
    CASE tag = "Int8" -> "char"
      [] tag = "Uint8" -> "unsigned char"
      [] tag = "Int16" -> "short"
      [] tag = "Uint16" -> "unsigned short"
      [] tag = "Int32" -> "int"
      [] tag = "Uint32" -> "unsigned int"
      [] tag = "Int64" -> "long"
      [] tag = "Uint64" -> "unsigned long"
      [] tag = "Float" -> "float"
      [] tag = "Double" -> "double"

\* The values a switch may find in m_datatype: the tag stored, or, while
\* the member is indeterminate, any tag or a value that is none of them.
TagsRead(vol) ==
    IF vol.m_datatype = "indeterminate" THEN DataType \cup {"invalid"}
    ELSE {vol.m_datatype}

header_line_count == 10

\* The first line, from line i on, that std::getline returns empty (0 when
\* all header_line_count lines are there).
RECURSIVE MissingLine(_, _)
MissingLine(lines, i) ==
    IF i > header_line_count THEN 0
    ELSE IF i > Len(lines) \/ IsEmptyLine(lines[i]) THEN i
    ELSE MissingLine(lines, i + 1)

\* std::to_string of a line number.
to_string(i) ==
    CASE i = 1 -> "1" [] i = 2 -> "2" [] i = 3 -> "3" [] i = 4 -> "4"
      [] i = 5 -> "5" [] i = 6 -> "6" [] i = 7 -> "7" [] i = 8 -> "8"
      [] i = 9 -> "9" [] i = 10 -> "10"

\* The size_t element_count of load_volume and uint8_normalised, as the
\* signed number congruent to it modulo 2^64: a negative product p stands
\* for 2^64 + p.
element_count(vol) == vol.m_size[1] * vol.m_size[2] * vol.m_size[3]

\* what() of the std::length_error that std::vector::resize throws when
\* it is asked for more than max_size() elements.
length_error == "vector::_M_default_append"

\* what() of the std::bad_function_call that calling an empty
\* std::function throws.
bad_function_call == "bad_function_call"

\* The type an exception is thrown as: std::vector throws a
\* std::length_error, std::function a std::bad_function_call, every throw
\* statement of the program a VTKReadError or a std::runtime_error, which
\* VTKReadError derives from.
ExceptionType(what) ==
    IF what = "" THEN "none"
    ELSE IF what = length_error THEN "std::length_error"
    ELSE IF what = bad_function_call THEN "std::bad_function_call"
    ELSE "std::runtime_error"

\* The switch of load_volume and what follows it.  In each read_data,
\* data.resize(element_count) comes first.
load_volume_data(vol, file, le) ==
    LET binary == is_binary(SubSeq(file.lines, 1, header_line_count))
    IN IF binary = "" THEN {Thrown(vol, "Cannot read file format.")}
       ELSE UNION {
           IF tag # "invalid" /\ element_count(vol) < 0
           THEN {Thrown([vol EXCEPT !.m_datatype = tag], length_error)}
           ELSE
           IF tag = "invalid"
           THEN {Returned([vol EXCEPT !.m_datatype = tag])}
           ELSE {Returned([vol EXCEPT !.m_datatype = tag,
                                      !.m_data = rd.image_data,
                                      !.m_range = rd.range])
                 : rd \in read_data(LoadElementType(tag), file.payload,
                                    binary = "BINARY", element_count(vol), le)}
           : tag \in TagsRead(vol)}

\* VTKVolume::load_volume(filename) on the object vol: the set of outcomes.
VTKVolume_load_volume(vol, file, le) ==
    IF ~file.exists THEN {Thrown(vol, "Cannot open file.")}
    ELSE IF MissingLine(file.lines, 1) # 0
    THEN {Thrown(vol, "Cannot read header, missing line "
                      \o to_string(MissingLine(file.lines, 1)) \o ".")}
    ELSE LET header == SubSeq(file.lines, 1, header_line_count)
         IN IF header[1].key # "# vtk"
            THEN {Thrown(vol, "Not a valid VTK file.")}
            ELSE LET r1 == read_data_type(vol, header)
                     r2 == read_dimensions(r1.vol, header)
                     r3 == read_origin(r2.vol, header)
                     r4 == read_spacing(r3.vol, header)
                 IN IF r1.err # "" THEN {r1}
                    ELSE IF r2.err # "" THEN {r2}
                    ELSE IF r3.err # "" THEN {r3}
                    ELSE IF r4.err # "" THEN {r4}
                    ELSE load_volume_data(r4.vol, file, le)

\* VTKVolume::uint8_normalised() on the object vol: the set of objects it
\* may leave.
uint8_normalised(vol, le) ==
    UNION {
        IF tag = "invalid"
        THEN {[vol EXCEPT !.m_data = Zeros(element_count(vol)),
                          !.m_datatype = "Uint8"]}
        ELSE {[vol EXCEPT !.m_data = normal_data, !.m_datatype = "Uint8"]
              : normal_data \in cast_and_normalise(
                    NormaliseElementType(tag), vol.m_data, vol.m_range,
                    element_count(vol), le)}
        : tag \in TagsRead(vol)}

\* ------------------------------------------------------------------------
\* The files the model reads
\* ------------------------------------------------------------------------

\* The C++ type a type keyword of the format declares.
DeclaredType(keyword) ==
    CASE keyword = "unsigned_char" -> "unsigned char"
      [] keyword = "char" -> "char"
      [] keyword = "unsigned_short" -> "unsigned short"
      [] keyword = "short" -> "short"
      [] keyword = "unsigned_int" -> "unsigned int"
      [] keyword = "int" -> "int"
      [] keyword = "unsigned_long" -> "unsigned long"
      [] keyword = "long" -> "long"
      [] keyword = "float" -> "float"
      [] keyword = "double" -> "double"

\* The sample values enumerated for each declared type.  The model's
\* integers are 32 bits wide, so the elements of the 4- and 8-byte integer
\* types are drawn where a signed and an unsigned reading of the bytes are
\* both within them.
SampleValues(keyword) ==
    CASE keyword = "unsigned_char" -> {0, 3, 200, 255}
      [] keyword = "char" -> {0 - 3, 0 - 1, 0, 5}
      [] keyword = "unsigned_short" -> {0, 3, 40000}
      [] keyword = "short" -> {0 - 3, 0, 300}
      [] keyword = "unsigned_int" -> {0, 7, 70000}
      [] keyword = "int" -> {0, 5, 70000}
      [] keyword = "unsigned_long" -> {0, 7, 70000}
      [] keyword = "long" -> {0, 5, 70000}
      [] keyword = "float" -> {0 - 2, 0, 3}
      [] keyword = "double" -> {0 - 2, 0, 3}

RECURSIVE Digits(_)
Digits(n) ==
    IF n < 10 THEN <<48 + n>> ELSE Append(Digits(n \div 10), 48 + (n % 10))

\* The decimal literal of v, as characters.
Decimal(v) == IF v < 0 THEN <<45>> \o Digits(0 - v) ELSE Digits(v)

\* The samples as the file holds them: big-endian elements of the declared
\* type, or decimal literals separated by a space and ended by a newline.
BinaryPayload(keyword, values) ==
    Flatten([i \in 1..Len(values) |->
                BytesOf(DeclaredType(keyword), values[i])])

AsciiPayload(values) ==
    Flatten([i \in 1..Len(values) |->
                Decimal(values[i])
                \o (IF i = Len(values) THEN <<10>> ELSE <<32>>)])

Payload(marker, keyword, values) ==
    IF marker = "BINARY" THEN BinaryPayload(keyword, values)
    ELSE AsciiPayload(values)

Chars(name) ==
    CASE name = "vol.vtk" -> <<"v", "o", "l", ".", "v", "t", "k">>
      [] name = "vol.VTK" -> <<"v", "o", "l", ".", "V", "T", "K">>
      [] name = "vol.raw" -> <<"v", "o", "l", ".", "r", "a", "w">>
      [] name = "vol" -> <<"v", "o", "l">>
      [] name = "vol." -> <<"v", "o", "l", ".">>
      [] name = "a.b/vol" -> <<"a", ".", "b", "/", "v", "o", "l">>

\* The header written in the comment of VTKVolume::load_volume.
Header(marker, keyword, dims, origin, spacing) ==
    << Line("# vtk", <<Word("DataFile"), Word("Version"), Word("3.0")>>),
       Line("comment", <<>>),
       Line(marker, <<>>),
       Line("DATASET", <<Word("STRUCTURED_POINTS")>>),
       Line("DIMENSIONS", <<Num(dims[1]), Num(dims[2]), Num(dims[3])>>),
       Line("ORIGIN", <<Num(origin[1]), Num(origin[2]), Num(origin[3])>>),
       Line("SPACING", <<Num(spacing[1]), Num(spacing[2]), Num(spacing[3])>>),
       Line("POINT_DATA", <<Num(dims[1] * dims[2] * dims[3])>>),
       Line("SCALARS", <<Word("image_data"), Word(keyword)>>),
       Line("LOOKUP_TABLE", <<Word("default")>>) >>

\* A file that follows the format.  Beside what the program reads (name,
\* exists, lines, payload) it carries what it was written from, for the
\* properties to refer to.
File(name, marker, keyword, dims, origin, spacing, values) ==
    [name |-> Chars(name),
     exists |-> TRUE,
     lines |-> Header(marker, keyword, dims, origin, spacing),
     payload |-> Payload(marker, keyword, values),
     marker |-> marker,
     keyword |-> keyword,
     dims |-> dims,
     origin |-> origin,
     spacing |-> spacing,
     values |-> values,
     fault |-> "none"]

Keywords == DOMAIN TypeKeyword

Markers == {"BINARY", "ASCII"}

Dimensions ==
    {d \in (1..MaxVoxels) \X (1..MaxVoxels) \X (1..MaxVoxels) :
        d[1] * d[2] * d[3] <= MaxVoxels}

Geometries ==
    {[origin |-> <<0, 0, 0>>, spacing |-> <<1, 1, 1>>],
     [origin |-> <<5, 0, 0>>, spacing |-> <<1, 2, 1>>]}

\* Every file that follows the format, within the bounds.
WellFormedFiles ==
    UNION {UNION {
        {File("vol.vtk", marker, keyword, d, g.origin, g.spacing, values)
         : values \in [1..(d[1] * d[2] * d[3]) -> SampleValues(keyword)]}
        : d \in Dimensions, g \in Geometries}
        : marker \in Markers, keyword \in Keywords}

\* A line that is no directive, in the place of one that is left out.
Filler == Line("FIELD", <<Word("FieldData"), Num(1)>>)

Faults ==
    {"missing file", "short header", "empty line", "bad magic",
     "no SCALARS", "no DIMENSIONS", "no ORIGIN", "no SPACING", "no marker",
     "bad SCALARS", "unsupported type", "bad DIMENSIONS", "bad ORIGIN",
     "bad SPACING", "truncated", "cut short"}

\* The file f with one thing wrong.
Faulty(f, fault) ==
    LET g == [f EXCEPT !.fault = fault]
    IN CASE fault = "missing file" -> [g EXCEPT !.exists = FALSE]
         [] fault = "short header" ->
                [g EXCEPT !.lines = SubSeq(f.lines, 1, header_line_count - 1)]
         [] fault = "empty line" -> [g EXCEPT !.lines[4] = Line("", <<>>)]
         [] fault = "bad magic" -> [g EXCEPT !.lines[1].key = "vtk D"]
         [] fault = "no SCALARS" -> [g EXCEPT !.lines[9] = Filler]
         [] fault = "no DIMENSIONS" -> [g EXCEPT !.lines[5] = Filler]
         [] fault = "no ORIGIN" -> [g EXCEPT !.lines[6] = Filler]
         [] fault = "no SPACING" -> [g EXCEPT !.lines[7] = Filler]
         [] fault = "no marker" -> [g EXCEPT !.lines[3] = Filler]
         [] fault = "bad SCALARS" ->
                [g EXCEPT !.lines[9].args = <<Word("image_data")>>]
         [] fault = "unsupported type" ->
                [g EXCEPT !.lines[9].args[2] = Word("bit")]
         [] fault = "bad DIMENSIONS" ->
                [g EXCEPT !.lines[5].args = SubSeq(f.lines[5].args, 1, 2)]
         [] fault = "bad ORIGIN" -> [g EXCEPT !.lines[6].args[3] = Word("x")]
         [] fault = "bad SPACING" -> [g EXCEPT !.lines[7].args[1] = Word("x")]
         [] fault = "truncated" ->
                [g EXCEPT !.payload =
                              Payload(f.marker, f.keyword, Front(f.values))]
         [] fault = "cut short" -> [g EXCEPT !.payload = Front(f.payload)]

\* The files the faults are applied to: one of each type and marker, the
\* largest and the smallest sample value in turn.
BaseFile(name, marker, keyword) ==
    File(name, marker, keyword, <<MaxVoxels, 1, 1>>, <<5, 0, 0>>, <<1, 2, 1>>,
         [i \in 1..MaxVoxels |->
             IF i % 2 = 1 THEN MaxOf(SampleValues(keyword))
             ELSE MinOf(SampleValues(keyword))])

FaultyFiles ==
    {Faulty(BaseFile("vol.vtk", marker, keyword), fault)
     : marker \in Markers, keyword \in Keywords, fault \in Faults}

\* The volume of the end-to-end scenario, at 2x2x2: unsigned_char, binary,
\* the values 0..7.
ExampleFile ==
    File("vol.vtk", "BINARY", "unsigned_char", <<2, 2, 2>>, <<0, 0, 0>>,
         <<1, 1, 1>>, [i \in 1..8 |-> i - 1])

\* The files VTKVolume is tried on.
Files == WellFormedFiles \cup FaultyFiles \cup {ExampleFile}

NoFile ==
    [name |-> <<>>, exists |-> FALSE, lines |-> <<>>, payload |-> <<>>,
     marker |-> "", keyword |-> "", dims |-> <<0, 0, 0>>,
     origin |-> <<0, 0, 0>>, spacing |-> <<0, 0, 0>>, values |-> <<>>,
     fault |-> "no file"]

\* ------------------------------------------------------------------------
\* The OpenGL context
\* ------------------------------------------------------------------------

NoImage == [size |-> <<0, 0, 0>>, data |-> <<>>]

\* The context when it is created: no texture, nothing bound to either of
\* the two texture units the program uses, unit 0 active.
Context ==
    [textures |-> {},
     image |-> [n \in {} |-> NoImage],
     active |-> 0,
     bound |-> [unit \in {0, 1} |-> [GL_TEXTURE_2D |-> 0, GL_TEXTURE_3D |-> 0]],
     viewport |-> <<1, 1>>]

\* The name glGenTextures returns: one not in use.
FreshName(gl) == MinOf(1..(Cardinality(gl.textures) + 1) \ gl.textures)

glGenTextures(gl) ==
    [gl EXCEPT !.textures = @ \cup {FreshName(gl)},
               !.image = [n \in gl.textures \cup {FreshName(gl)} |->
                             IF n \in gl.textures THEN gl.image[n]
                             ELSE NoImage]]

\* glDeleteTextures ignores zero and names that are no texture; a deleted
\* texture that is bound, to any unit, is unbound.
glDeleteTextures(gl, t) ==
    IF t \notin gl.textures THEN gl
    ELSE [gl EXCEPT !.textures = @ \ {t},
                    !.image = [n \in gl.textures \ {t} |-> gl.image[n]],
                    !.bound = [unit \in DOMAIN gl.bound |->
                                  [target \in DOMAIN gl.bound[unit] |->
                                      IF gl.bound[unit][target] = t THEN 0
                                      ELSE gl.bound[unit][target]]]]

glActiveTexture(gl, unit) == [gl EXCEPT !.active = unit]

\* glBindTexture binds to the active unit.
glBindTexture(gl, target, t) == [gl EXCEPT !.bound[gl.active][target] = t]

\* glTexImage3D and glTexImage2D on the texture bound to target.  A negative
\* width, height or depth is GL_INVALID_VALUE: the call has no effect.
glTexImage(gl, target, size, data) ==
    IF gl.bound[gl.active][target] = 0 \/ \E i \in 1..3 : size[i] < 0 THEN gl
    ELSE [gl EXCEPT !.image[gl.bound[gl.active][target]] =
                        [size |-> size, data |-> data]]

glViewport(gl, width, height) == [gl EXCEPT !.viewport = <<width, height>>]

\* ------------------------------------------------------------------------
\* RayCastVolume
\* ------------------------------------------------------------------------

\* What the constructor leaves.
RayCastVolume ==
    [null |-> FALSE,
     m_volume_texture |-> 0,
     m_noise_texture |-> 0,
     m_range |-> [first |-> 0, second |-> 0],
     m_origin |-> <<0, 0, 0>>,
     m_spacing |-> <<0, 0, 0>>,
     m_size |-> <<0, 0, 0>>]

nullptr == [null |-> TRUE]

\* QString::toLower, on the characters of the names.
toLower(chars) ==
    [i \in DOMAIN chars |->
        CASE chars[i] = "V" -> "v"
          [] chars[i] = "T" -> "t"
          [] chars[i] = "K" -> "k"
          [] OTHER -> chars[i]]

RECURSIVE toStdString(_)
toStdString(chars) ==
    IF chars = <<>> THEN "" ELSE Head(chars) \o toStdString(Tail(chars))

\* The position of the last "." of the name (0 when it has none).
LastDot(chars) == MaxOf({0} \cup {k \in DOMAIN chars : chars[k] = "."})

\* re.match(filename) for "^.*\\.([^\\.]+)$": a "." followed by one or
\* more characters that are no "." up to the end.
hasMatch(chars) == LastDot(chars) > 0 /\ LastDot(chars) < Len(chars)

captured(chars) == SubSeq(chars, LastDot(chars) + 1, Len(chars))

\* Texture calls that do not delete the texture of the volume before.
UploadVolume_without_delete(rcv, gl, data) ==
    LET name == FreshName(gl)
        gl2 == glBindTexture(glGenTextures(gl), "GL_TEXTURE_3D", name)
        gl3 == glTexImage(gl2, "GL_TEXTURE_3D", rcv.m_size, data)
    IN [rcv |-> [rcv EXCEPT !.m_volume_texture = name],
        gl |-> glBindTexture(gl3, "GL_TEXTURE_3D", 0)]

\* The texture calls that end load_volume.
UploadVolume(rcv, gl, data) ==
    LET gl1 == glDeleteTextures(gl, rcv.m_volume_texture)
        name == FreshName(gl1)
        gl2 == glBindTexture(glGenTextures(gl1), "GL_TEXTURE_3D", name)
        gl3 == glTexImage(gl2, "GL_TEXTURE_3D", rcv.m_size, data)
    IN [rcv |-> [rcv EXCEPT !.m_volume_texture = name],
        gl |-> glBindTexture(gl3, "GL_TEXTURE_3D", 0)]

\* An outcome of RayCastVolume::load_volume: the object and the context
\* afterwards, what() of the exception thrown ("" when it returns), and
\* the local VTKVolume as it was last.
Outcome(rcv, gl, what, volume) ==
    [rcv |-> rcv, gl |-> gl, what |-> what, volume |-> volume]

\* An early upload: the previous texture is dropped before the file is
\* looked at.
RayCastVolume_load_volume_dropping_first(rcv, gl, file, le) ==
    LET gone == [rcv EXCEPT !.m_volume_texture = 0]
        gl0 == glDeleteTextures(gl, rcv.m_volume_texture)
    IN IF ~hasMatch(file.name)
       THEN {Outcome(gone, gl0, "Cannot determine file extension.", VTKVolume)}
       ELSE IF toLower(captured(file.name)) # <<"v", "t", "k">>
       THEN {Outcome(gone, gl0, "Unrecognised extension '"
                         \o toStdString(toLower(captured(file.name))) \o "'.",
                     VTKVolume)}
       ELSE UNION {
           IF r.err # "" THEN {Outcome(gone, gl0, r.err, r.vol)}
           ELSE {LET up == UploadVolume(
                               [gone EXCEPT !.m_size = volume.m_size,
                                            !.m_origin = volume.m_origin,
                                            !.m_spacing = volume.m_spacing,
                                            !.m_range = volume.m_range],
                               gl0, volume.m_data)
                 IN Outcome(up.rcv, up.gl, "", volume)
                 : volume \in uint8_normalised(r.vol, le)}
           : r \in VTKVolume_load_volume(VTKVolume, file, le)}

\* RayCastVolume::load_volume(filename): the set of outcomes.
RayCastVolume_load_volume(rcv, gl, file, le) ==
    IF ~hasMatch(file.name)
    THEN {Outcome(rcv, gl, "Cannot determine file extension.", VTKVolume)}
    ELSE IF toLower(captured(file.name)) # <<"v", "t", "k">>
    THEN {Outcome(rcv, gl, "Unrecognised extension '"
                      \o toStdString(toLower(captured(file.name))) \o "'.",
                  VTKVolume)}
    ELSE UNION {
        IF r.err # "" THEN {Outcome(rcv, gl, r.err, r.vol)}
        ELSE {LET up == UploadVolume(
                            [rcv EXCEPT !.m_size = volume.m_size,
                                        !.m_origin = volume.m_origin,
                                        !.m_spacing = volume.m_spacing,
                                        !.m_range = volume.m_range],
                            gl, volume.m_data)
              IN Outcome(up.rcv, up.gl, "", volume)
              : volume \in uint8_normalised(r.vol, le)}
        : r \in VTKVolume_load_volume(VTKVolume, file, le)}

\* for (p = noise; p <= noise + width * height; ++p) *p = ...: the
\* indices of noise that the loop of create_noise writes, from p on.
RECURSIVE fill(_, _)
fill(p, end) ==
    IF p <= end THEN {p} \cup fill(p + 1, end) ELSE {}

\* unsigned char noise[width * height] after the loop: its length and
\* the indices written.
Noise(width, height) ==
    [length |-> width * height, written |-> fill(0, width * height)]

\* No array: the operation did not call create_noise.
NoNoise == [length |-> 0, written |-> {}]

\* A write outside the array, which is undefined.
OutOfBounds(noise) ==
    \E i \in noise.written : i < 0 \/ i >= noise.length

\* A create_noise that does not delete the noise texture before.
create_noise_without_delete(rcv, gl) ==
    LET name == FreshName(gl)
        gl2 == glBindTexture(glGenTextures(gl), "GL_TEXTURE_2D", name)
        gl3 == glTexImage(gl2, "GL_TEXTURE_2D",
                          <<gl.viewport[1], gl.viewport[2], 1>>, <<>>)
    IN [rcv |-> [rcv EXCEPT !.m_noise_texture = name],
        gl |-> glBindTexture(gl3, "GL_TEXTURE_2D", 0),
        noise |-> Noise(gl.viewport[1], gl.viewport[2])]

\* RayCastVolume::create_noise(): the array is filled, and a texture of
\* the size of the viewport replaces the noise texture.  The random bytes
\* are not kept.
create_noise(rcv, gl) ==
    LET gl1 == glDeleteTextures(gl, rcv.m_noise_texture)
        name == FreshName(gl1)
        gl2 == glBindTexture(glGenTextures(gl1), "GL_TEXTURE_2D", name)
        gl3 == glTexImage(gl2, "GL_TEXTURE_2D",
                          <<gl.viewport[1], gl.viewport[2], 1>>, <<>>)
    IN [rcv |-> [rcv EXCEPT !.m_noise_texture = name],
        gl |-> glBindTexture(gl3, "GL_TEXTURE_2D", 0),
        noise |-> Noise(gl.viewport[1], gl.viewport[2])]

\* ------------------------------------------------------------------------
\* The geometric frame of RayCastVolume
\* ------------------------------------------------------------------------

RECURSIVE GCD(_, _)
GCD(a, b) == IF b = 0 THEN a ELSE GCD(b, a % b)

\* The float n / d as a fraction in lowest terms with a positive
\* denominator; 0 / 0 is a NaN and n / 0 an infinity of the sign of n.
\* (The rounding of a quotient that no float holds is not modelled.)
Ratio(n, d) ==
    IF d = 0
    THEN IF n = 0 THEN [kind |-> "nan", num |-> 0, den |-> 0]
         ELSE [kind |-> "inf", num |-> IF n < 0 THEN 0 - 1 ELSE 1, den |-> 0]
    ELSE LET g == GCD(Abs(n), Abs(d))
         IN [kind |-> "finite",
             num |-> (IF d < 0 THEN 0 - n ELSE n) \div g,
             den |-> Abs(d) \div g]

\* a / b, a - b and -a on such floats.
Over(a, b) ==
    IF a.kind = "nan" \/ b.kind = "nan" \/ (a.kind = "inf" /\ b.kind = "inf")
    THEN Ratio(0, 0)
    ELSE IF b.kind = "inf" THEN Ratio(0, 1)
    ELSE IF a.kind = "inf"
    THEN Ratio(IF b.num < 0 THEN 0 - a.num ELSE a.num, 0)
    ELSE Ratio(a.num * b.den, a.den * b.num)

Minus(a, b) ==
    IF a.kind = "nan" \/ b.kind = "nan"
       \/ (a.kind = "inf" /\ b.kind = "inf" /\ a.num = b.num)
    THEN Ratio(0, 0)
    ELSE IF a.kind = "inf" THEN a
    ELSE IF b.kind = "inf" THEN Ratio(0 - b.num, 0)
    ELSE Ratio(a.num * b.den - b.num * a.den, a.den * b.den)

Negated(a) == [a EXCEPT !.num = 0 - a.num]

\* m_size * m_spacing, component by component.
SizeBySpacing(rcv) == [i \in 1..3 |-> rcv.m_size[i] * rcv.m_spacing[i]]

\* RayCastVolume::scale_factor().
scale_factor(rcv) == MaxOf(Range(SizeBySpacing(rcv)))

\* An extent that is not divided by its largest component.
extent_not_normalised(rcv) ==
    [i \in 1..3 |-> Ratio(SizeBySpacing(rcv)[i], 1)]

\* RayCastVolume::extent().
extent(rcv) ==
    [i \in 1..3 |->
        Ratio(SizeBySpacing(rcv)[i], MaxOf(Range(SizeBySpacing(rcv))))]

\* m_origin / scale_factor().
OriginShift(rcv) == [i \in 1..3 |-> Ratio(rcv.m_origin[i], scale_factor(rcv))]

\* RayCastVolume::modelMatrix(shift): the translation and then the scale
\* applied to the identity, as the column of the translation and the
\* diagonal of the scale.
modelMatrix(rcv, shift) ==
    [translate |-> [i \in 1..3 |->
                       IF shift THEN Negated(OriginShift(rcv)[i])
                       ELSE Ratio(0, 1)],
     scale |-> [i \in 1..3 |-> Over(extent(rcv)[i], Ratio(2, 1))]]

\* RayCastVolume::top(shift).
top(rcv, shift) ==
    [i \in 1..3 |->
        IF shift
        THEN Minus(Over(extent(rcv)[i], Ratio(2, 1)), OriginShift(rcv)[i])
        ELSE Over(extent(rcv)[i], Ratio(2, 1))]

\* RayCastVolume::bottom(shift).
bottom(rcv, shift) ==
    [i \in 1..3 |->
        IF shift
        THEN Minus(Over(Negated(extent(rcv)[i]), Ratio(2, 1)),
                   OriginShift(rcv)[i])
        ELSE Over(Negated(extent(rcv)[i]), Ratio(2, 1))]

\* ------------------------------------------------------------------------
\* RayCastCanvas
\* ------------------------------------------------------------------------

\* a + b and a * b on the floats of the geometric frame.
Plus(a, b) == Minus(a, Negated(b))

Times(a, b) ==
    IF a.kind = "nan" \/ b.kind = "nan" THEN Ratio(0, 0)
    ELSE IF a.kind = "inf" \/ b.kind = "inf"
    THEN IF a.num = 0 \/ b.num = 0 THEN Ratio(0, 0)
         ELSE Ratio(IF (a.num < 0) = (b.num < 0) THEN 1 ELSE 0 - 1, 0)
    ELSE Ratio(a.num * b.num, a.den * b.den)

\* A double of the parser, which is counted in halves, as such a float.
\* The thresholds and the bounds of their controls are counted in halves
\* as well, so that a threshold divided by a range is the plain number.
Float(d) == Ratio(d, 1)

\* The value of a float that was given none.
Indeterminate == [kind |-> "indeterminate", num |-> 0, den |-> 0]

\* The mode no std::function is stored for.
EmptyFunction == "(empty)"

\* What the constructor leaves: the three modes, each a call of raycasting
\* with its own name; no active mode; the members with no initialiser
\* (m_stepLength, m_threshold, m_aspectRatio) indeterminate; a QColor and a
\* QVector2D as their default constructors make them; and the geometry of
\* the widget, width(), height() and devicePixelRatio(), the ratio counted
\* in halves.
RayCastCanvas ==
    [m_modes |-> [mode \in {"Isosurface", "Alpha blending", "MIP"} |-> mode],
     m_active_mode |-> "",
     m_stepLength |-> Indeterminate,
     m_threshold |-> Indeterminate,
     m_aspectRatio |-> Indeterminate,
     m_background |-> "invalid",
     m_viewportSize |-> <<0, 0>>,
     m_distExp |-> 0 - 200,
     width |-> 1,
     height |-> 1,
     devicePixelRatio |-> Dbl(1)]

\* RayCastCanvas::setStepLength, setMode and setBackground.
setStepLength(canvas, step_length) ==
    [canvas EXCEPT !.m_stepLength = step_length]

setMode_and_threshold(canvas, mode) ==
    [canvas EXCEPT !.m_active_mode = mode, !.m_threshold = Ratio(0, 1)]

setMode(canvas, mode) == [canvas EXCEPT !.m_active_mode = mode]

setBackground(canvas, colour) == [canvas EXCEPT !.m_background = colour]

\* RayCastCanvas::getModes(): the keys of m_modes.
getModes(canvas) == DOMAIN canvas.m_modes

\* RayCastCanvas::getRange().
getRange(rcv) == rcv.m_range

\* A setThreshold that stores the threshold as it is given.
setThreshold_unscaled(canvas, rcv, threshold) ==
    [canvas EXCEPT !.m_threshold = threshold]

\* RayCastCanvas::setThreshold(threshold).  While m_raycasting_volume is
\* null the range is read through a null pointer; when that read returns,
\* the quotient is indeterminate.
setThreshold(canvas, rcv, threshold) ==
    [canvas EXCEPT !.m_threshold =
        IF rcv.null THEN Indeterminate
        ELSE Over(threshold,
                  Float(DSub(getRange(rcv).second, getRange(rcv).first)))]

\* RayCastCanvas::scaled_width() and scaled_height(): the product, a
\* double, converted to GLuint.
scaled_width(canvas) == (canvas.devicePixelRatio * canvas.width) \div 2

scaled_height(canvas) == (canvas.devicePixelRatio * canvas.height) \div 2

\* INT_MAX and INT_MIN of the platform.
INT_MAX == 2147483647

INT_MIN == 0 - INT_MAX - 1

\* The sum a + b is no int.
Overflows(a, b) ==
    \/ a > 0 /\ b > INT_MAX - a
    \/ a < 0 /\ b < INT_MIN - a

\* The int a sum that is none wraps to.
Wrapped(a, b) ==
    IF a > 0 THEN (a + INT_MIN) + (b + INT_MIN)
    ELSE (a - INT_MIN) + (b - INT_MIN)

\* What m_distExp += delta may leave: the sum; when the sum is no int the
\* addition is undefined, and leaves the wrapped sum or either end of the
\* range of int.
Added(a, b) ==
    IF Overflows(a, b) THEN {Wrapped(a, b), INT_MIN, INT_MAX}
    ELSE {a + b}

\* A wheelEvent with no limits.
wheelEvent_unclamped(canvas, delta) ==
    {[canvas EXCEPT !.m_distExp = sum] : sum \in Added(canvas.m_distExp, delta)}

\* RayCastCanvas::wheelEvent(event), for event->delta(): the canvases it
\* may leave.
wheelEvent(canvas, delta) ==
    {[canvas EXCEPT !.m_distExp = IF sum < 0 - 1800 THEN 0 - 1800
                                  ELSE IF sum > 600 THEN 600
                                  ELSE sum]
     : sum \in Added(canvas.m_distExp, delta)}

\* RayCastVolume::paint(): the volume texture on unit 0, the noise texture
\* on unit 1, then the cube.
paint(rcv, gl) ==
    glBindTexture(
        glActiveTexture(
            glBindTexture(glActiveTexture(gl, 0), "GL_TEXTURE_3D",
                          rcv.m_volume_texture),
            1),
        "GL_TEXTURE_2D", rcv.m_noise_texture)

\* The texture a sampler of a unit reads: the image of the texture bound,
\* NoImage when it is texture 0 or a name that is no texture.
Sampled(gl, unit, target) ==
    IF gl.bound[unit][target] \in gl.textures
    THEN gl.image[gl.bound[unit][target]]
    ELSE NoImage

\* The uniforms raycasting sends that are not constants of the class: the
\* matrices by what paintGL computes them from (the camera distance level,
\* the aspect ratio of the perspective and the model matrix of the
\* volume; the rotation of the trackball is left out), and the samplers.
Uniforms(canvas, rcv) ==
    [ViewMatrix |-> canvas.m_distExp,
     perspective |-> Ratio(scaled_width(canvas), scaled_height(canvas)),
     modelMatrix |-> modelMatrix(rcv, FALSE),
     aspect_ratio |-> canvas.m_aspectRatio,
     viewport_size |-> canvas.m_viewportSize,
     top |-> top(rcv, FALSE),
     bottom |-> bottom(rcv, FALSE),
     background_colour |-> canvas.m_background,
     step_length |-> canvas.m_stepLength,
     threshold |-> canvas.m_threshold,
     volume |-> 0,
     jitter |-> 1]

\* What a paintGL leaves on the screen: whether it drew, with which program
\* and uniforms, and the textures its two samplers read.
Frame(drawn, program, uniforms, volume, jitter) ==
    [drawn |-> drawn, program |-> program, uniforms |-> uniforms,
     volume |-> volume, jitter |-> jitter]

NoFrame == Frame(FALSE, "", <<>>, NoImage, NoImage)

\* RayCastCanvas::raycasting(shader) that sends each program its own
\* threshold.
raycasting_by_mode(canvas, rcv, gl, shader) ==
    LET painted == paint(rcv, gl)
    IN [gl |-> painted,
        frame |-> Frame(TRUE, shader,
                        [Uniforms(canvas, rcv) EXCEPT
                            !.threshold = IF shader = "Isosurface" THEN @
                                          ELSE Ratio(0, 1)],
                        Sampled(painted, 0, "GL_TEXTURE_3D"),
                        Sampled(painted, 1, "GL_TEXTURE_2D"))]

\* RayCastCanvas::raycasting(shader): the context and the frame it leaves.
raycasting(canvas, rcv, gl, shader) ==
    LET painted == paint(rcv, gl)
    IN [gl |-> painted,
        frame |-> Frame(TRUE, shader, Uniforms(canvas, rcv),
                        Sampled(painted, 0, "GL_TEXTURE_3D"),
                        Sampled(painted, 1, "GL_TEXTURE_2D"))]

\* ------------------------------------------------------------------------
\* MainWindow
\* ------------------------------------------------------------------------

\* a < b on finite floats: by their integral parts, and by their
\* fractional parts when these are equal.
Less(a, b) ==
    \/ a.num \div a.den < b.num \div b.den
    \/ /\ a.num \div a.den = b.num \div b.den
       /\ (a.num % a.den) * b.den < (b.num % b.den) * a.den

\* qBound(lo, v, hi).
Bound(lo, v, hi) == IF Less(v, lo) THEN lo ELSE IF Less(hi, v) THEN hi ELSE v

\* The int a double converts to: its integral part; for a NaN or an
\* infinity the conversion is undefined, and gives INT_MIN or 0.
ToInt(q) ==
    IF q.kind # "finite" THEN {INT_MIN, 0}
    ELSE IF q.num < 0 THEN {0 - ((0 - q.num) \div q.den)}
    ELSE {q.num \div q.den}

\* The range of the threshold slider, which holds a percentage.
SliderMinimum == 0

SliderMaximum == 100

\* The threshold controls as setupUi leaves them: the bounds and the value
\* of the spin box, counted in halves as the doubles of the parser are, and
\* the value of the slider.  (A spin box rounds its value to the decimals
\* it displays: that rounding is not modelled.)
Ui ==
    [threshold_spinbox |-> [minimum |-> Float(Dbl(0)),
                            maximum |-> Float(Dbl(100)),
                            value |-> Float(Dbl(0))],
     threshold_slider |-> [value |-> 0]]

\* The window: its controls and its canvas.
Window(ui, canvas) == [ui |-> ui, canvas |-> canvas]

RECURSIVE on_threshold_spinbox_valueChanged(_, _, _)
RECURSIVE on_threshold_slider_valueChanged(_, _, _)

\* QSlider::setValue(value): the value is bounded, and valueChanged is
\* emitted when it changes.  The QSignalBlocker of the handlers is a
\* temporary, destroyed before the setValue it precedes, and blocks
\* nothing.
slider_setValue(w, rcv, value) ==
    LET v == IF value < SliderMinimum THEN SliderMinimum
             ELSE IF value > SliderMaximum THEN SliderMaximum
             ELSE value
    IN IF v = w.ui.threshold_slider.value THEN {w}
       ELSE on_threshold_slider_valueChanged(
                [w EXCEPT !.ui.threshold_slider.value = v], rcv, v)

\* QDoubleSpinBox::setValue(value), likewise.
spinbox_setValue(w, rcv, value) ==
    LET box == w.ui.threshold_spinbox
        v == Bound(box.minimum, value, box.maximum)
    IN IF v = box.value THEN {w}
       ELSE on_threshold_spinbox_valueChanged(
                [w EXCEPT !.ui.threshold_spinbox.value = v], rcv, v)

\* QDoubleSpinBox::setMinimum(minimum) and setMaximum(maximum): the other
\* bound gives way, and the value is brought within the bounds.
spinbox_setMinimum(w, rcv, minimum) ==
    LET box == w.ui.threshold_spinbox
        maximum == IF Less(box.maximum, minimum) THEN minimum
                   ELSE box.maximum
    IN spinbox_setValue(
           [w EXCEPT !.ui.threshold_spinbox.minimum = minimum,
                     !.ui.threshold_spinbox.maximum = maximum],
           rcv, box.value)

spinbox_setMaximum(w, rcv, maximum) ==
    LET box == w.ui.threshold_spinbox
        minimum == IF Less(maximum, box.minimum) THEN maximum
                   ELSE box.minimum
    IN spinbox_setValue(
           [w EXCEPT !.ui.threshold_spinbox.minimum = minimum,
                     !.ui.threshold_spinbox.maximum = maximum],
           rcv, box.value)

\* MainWindow::on_threshold_spinbox_valueChanged(arg1): the windows it may
\* leave.
on_threshold_spinbox_valueChanged(w, rcv, arg1) ==
    LET box == w.ui.threshold_spinbox
        range == Minus(box.maximum, box.minimum)
        set == [w EXCEPT !.canvas = setThreshold(w.canvas, rcv, arg1)]
    IN UNION {slider_setValue(set, rcv, value)
              : value \in ToInt(Over(Times(Ratio(100, 1),
                                           Minus(arg1, box.minimum)),
                                     range))}

\* MainWindow::on_threshold_slider_valueChanged(value): the windows it may
\* leave.
on_threshold_slider_valueChanged(w, rcv, value) ==
    LET box == w.ui.threshold_spinbox
        range == Minus(box.maximum, box.minimum)
        threshold == Plus(box.minimum, Times(Ratio(value, 100), range))
    IN spinbox_setValue([w EXCEPT !.canvas = setThreshold(w.canvas, rcv,
                                                          threshold)],
                        rcv, threshold)

\* An outcome of MainWindow::load_volume: the window, the RayCastVolume
\* and the context afterwards, the local VTKVolume, what() of the
\* exception setVolume threw ("" when it returned), the text of the
\* warning shown ("" when none is), and whether the exception leaves the
\* function.
Loaded(w, out, warning, escaped) ==
    [w |-> w, rcv |-> out.rcv, gl |-> out.gl, volume |-> out.volume,
     what |-> out.what, warning |-> warning, escaped |-> escaped]

\* The update of the controls that follows setVolume in load_volume.
UpdateUi(w, rcv) ==
    UNION {UNION {on_threshold_slider_valueChanged(
                      w2, rcv, w2.ui.threshold_slider.value)
                  : w2 \in spinbox_setMaximum(w1, rcv,
                                              Float(getRange(rcv).second))}
           : w1 \in spinbox_setMinimum(w, rcv, Float(getRange(rcv).first))}

\* A load_volume that leaves the threshold as it is.
MainWindow_load_volume_keeping_threshold(w, rcv, gl, file, le) ==
    {IF out.what = ""
     THEN Loaded([w EXCEPT !.ui.threshold_spinbox.minimum =
                               Float(getRange(out.rcv).first),
                           !.ui.threshold_spinbox.maximum =
                               Float(getRange(out.rcv).second)],
                 out, "", FALSE)
     ELSE Loaded(w, out, "Cannot load volume: " \o out.what, FALSE)
     : out \in RayCastVolume_load_volume(rcv, gl, file, le)}

\* MainWindow::load_volume(path): the set of outcomes.  The handler
\* catches std::runtime_error and what derives from it.
MainWindow_load_volume(w, rcv, gl, file, le) ==
    UNION {
        IF out.what = ""
        THEN {Loaded(updated, out, "", FALSE)
              : updated \in UpdateUi(w, out.rcv)}
        ELSE IF ExceptionType(out.what) = "std::runtime_error"
        THEN {Loaded(w, out, "Cannot load volume: " \o out.what, FALSE)}
        ELSE {Loaded(w, out, "", TRUE)}
        : out \in RayCastVolume_load_volume(rcv, gl, file, le)}

\* ------------------------------------------------------------------------
\* The state and the operations
\* ------------------------------------------------------------------------

VARIABLES
    little_endian,        \* is_little_endian() of the host
    volume,               \* the VTKVolume last worked on
    call,                 \* the last operation: its name, its file, what()
                          \* of the exception it threw ("" when it returned)
                          \* and the VTKVolume it started from
    m_raycasting_volume,  \* RayCastCanvas::m_raycasting_volume
    m_shaders,            \* the names RayCastCanvas::m_shaders has a program for
    gl,                   \* the OpenGL context of the widget
    canvas,               \* the other members of the RayCastCanvas
    ui,                   \* the threshold controls of the MainWindow
    frame,                \* what the last operation drew, if it was a paintGL
    alive                 \* no exception has left a handler of the program
                          \* and no undefined write has ended the process

vars ==
    <<little_endian, volume, call, m_raycasting_volume, m_shaders, gl,
      canvas, ui, frame, alive>>

\* The last operation: its name, the file it was given, what() of the
\* exception it threw, the volume before it, and the local array of
\* create_noise if it called it.
Call(op, file, what, before) ==
    [op |-> op, file |-> file, what |-> what, before |-> before,
     noise |-> NoNoise]

\* How a handler that has called create_noise goes on: a write outside
\* the array is undefined, and the builds of the program either go on as
\* if it had not happened or end the process when create_noise returns.
GoesOn(noise) == IF OutOfBounds(noise) THEN BOOLEAN ELSE {TRUE}

\* The files the canvas is given: sound ones under both spellings of the
\* extension, every fault, and names with no usable extension.
ProgramFiles ==
    {BaseFile(name, marker, keyword)
     : name \in {"vol.vtk", "vol.VTK"}, marker \in Markers,
       keyword \in {"unsigned_char", "short", "float"}}
    \cup {File("vol.vtk", "BINARY", "char", <<1, 1, 1>>, <<0, 0, 0>>,
               <<1, 1, 1>>, <<v>>) : v \in SampleValues("char")}
    \cup {Faulty(BaseFile("vol.vtk", marker, "short"), fault)
          : marker \in Markers, fault \in Faults}
    \cup {[BaseFile(name, "BINARY", "short") EXCEPT !.fault = "bad name"]
          : name \in {"vol.raw", "vol", "vol.", "a.b/vol"}}
    \cup {File("vol.vtk", "BINARY", "unsigned_char", <<2, 1, 1>>,
               <<0, 0, 0>>, <<1, 1, 1>>, <<0, 255>>)}

Init ==
    /\ little_endian \in BOOLEAN
    /\ volume = VTKVolume
    /\ call = Call("none", NoFile, "", VTKVolume)
    /\ m_raycasting_volume = nullptr
    /\ m_shaders = {}
    /\ gl = Context
    /\ canvas = RayCastCanvas
    /\ ui = Ui
    /\ frame = NoFrame
    /\ alive = TRUE

\* RayCastCanvas::initializeGL(), which Qt calls once, before the first
\* resizeGL and paintGL.
initializeGL ==
    /\ alive
    /\ m_raycasting_volume.null
    /\ LET made == create_noise(RayCastVolume, gl)
       IN /\ m_raycasting_volume' = made.rcv
          /\ gl' = made.gl
          /\ call' = [Call("initializeGL", NoFile, "", VTKVolume)
                         EXCEPT !.noise = made.noise]
          /\ alive' \in GoesOn(made.noise)
    /\ m_shaders' = IF alive' THEN {"Isosurface", "Alpha blending", "MIP"}
                    ELSE m_shaders
    /\ frame' = NoFrame
    /\ UNCHANGED <<little_endian, volume, canvas, ui>>

\* RayCastCanvas::setVolume(volume), on a canvas that is initialised.
setVolume(file) ==
    /\ alive
    /\ ~m_raycasting_volume.null
    /\ \E out \in RayCastVolume_load_volume(m_raycasting_volume, gl, file,
                                            little_endian) :
          /\ m_raycasting_volume' = out.rcv
          /\ gl' = out.gl
          /\ volume' = out.volume
          /\ call' = Call("setVolume", file, out.what, VTKVolume)
    /\ frame' = NoFrame
    /\ UNCHANGED <<little_endian, m_shaders, canvas, ui, alive>>

Next ==
    \/ initializeGL
    \/ \E file \in ProgramFiles : setVolume(file)

Spec == Init /\ [][Next]_vars

\* VTKVolume volume {filename}: a new object loads the file.
Construct(file) ==
    /\ call.op = "none"
    /\ \E r \in VTKVolume_load_volume(VTKVolume, file, little_endian) :
          /\ volume' = r.vol
          /\ call' = Call("VTKVolume", file, r.err, VTKVolume)
    /\ UNCHANGED <<little_endian, m_raycasting_volume, m_shaders, gl,
                   canvas, ui, frame, alive>>

\* volume.uint8_normalised(), on an object that was constructed.
Normalise ==
    /\ call.op = "VTKVolume"
    /\ call.what = ""
    /\ \E v \in uint8_normalised(volume, little_endian) :
          /\ volume' = v
          /\ call' = Call("uint8_normalised", call.file, "", volume)
    /\ UNCHANGED <<little_endian, m_raycasting_volume, m_shaders, gl,
                   canvas, ui, frame, alive>>

NextVTK ==
    \/ \E file \in Files : Construct(file)
    \/ Normalise

\* The parser alone: one VTKVolume, constructed from any of the files and
\* then normalised.
SpecVTK == Init /\ [][NextVTK]_vars

\* A file whose header is read but whose DIMENSIONS no volume has.
BadDimensions(dims, values, fault) ==
    [File("vol.vtk", "BINARY", "unsigned_char", dims, <<0, 0, 0>>,
          <<1, 1, 1>>, values) EXCEPT !.fault = fault]

\* The files the window is given: two sound volumes of different size,
\* spacing, origin and range, a file with a corrupted magic number, and
\* files with a zero and with negative DIMENSIONS.
WindowFiles ==
    {File("vol.vtk", "BINARY", "unsigned_char", <<2, 1, 1>>, <<0, 0, 0>>,
          <<1, 1, 1>>, <<0, 255>>),
     BaseFile("vol.vtk", "BINARY", "short"),
     Faulty(BaseFile("vol.vtk", "BINARY", "short"), "bad magic"),
     BadDimensions(<<0, 1, 1>>, <<>>, "zero DIMENSIONS"),
     BadDimensions(<<0 - 1, 1, 1>>, <<>>, "negative DIMENSIONS"),
     BadDimensions(<<0 - 1, 0 - 1, 1>>, <<7>>, "two negative DIMENSIONS")}

\* The files the canvas is given: the two sound volumes and the file with
\* a corrupted magic number.
CanvasFiles == {file \in WindowFiles : file.keyword = "short" \/ file.fault = "none"}

\* The size and the pixel ratio of the widget after a resize, the ratio in
\* halves: 1.5 and 2.
Geometry == {<<3, 2, 3>>, <<1, 1, Dbl(2)>>}

\* The values of the controls and of the events.
ModeNames == {"Isosurface", "Alpha blending", "MIP", "Wireframe"}

StepLengths == {Ratio(1, 100)}

Colours == {"black"}

SliderValues == {0, 50, 100}

SpinboxValues == {Float(Dbl(1)), Float(Dbl(64))}

Deltas == {1600, 0 - 2400, INT_MAX, INT_MIN}

\* RayCastCanvas::resizeGL(w, h), which Qt calls with the widget at its
\* new size, after initializeGL.
resizeGL(width, height, devicePixelRatio) ==
    /\ alive
    /\ ~m_raycasting_volume.null
    /\ LET sized == [canvas EXCEPT !.width = width, !.height = height,
                                   !.devicePixelRatio = devicePixelRatio]
           made == create_noise(m_raycasting_volume,
                                glViewport(gl, scaled_width(sized),
                                           scaled_height(sized)))
       IN /\ canvas' = [sized EXCEPT
                           !.m_viewportSize = <<scaled_width(sized),
                                                scaled_height(sized)>>,
                           !.m_aspectRatio = Ratio(scaled_width(sized),
                                                   scaled_height(sized))]
          /\ m_raycasting_volume' = made.rcv
          /\ gl' = made.gl
          /\ call' = [Call("resizeGL", NoFile, "", VTKVolume)
                         EXCEPT !.noise = made.noise]
          /\ alive' \in GoesOn(made.noise)
    /\ frame' = NoFrame
    /\ UNCHANGED <<little_endian, volume, m_shaders, ui>>

\* RayCastCanvas::paintGL(), which Qt calls after initializeGL.
\* m_modes[m_active_mode] adds an empty std::function for a name that has
\* none, and to call it throws.
paintGL ==
    /\ alive
    /\ ~m_raycasting_volume.null
    /\ IF /\ canvas.m_active_mode \in DOMAIN canvas.m_modes
          /\ canvas.m_modes[canvas.m_active_mode] # EmptyFunction
       THEN LET cast == raycasting(canvas, m_raycasting_volume, gl,
                                   canvas.m_modes[canvas.m_active_mode])
            IN /\ gl' = cast.gl
               /\ frame' = cast.frame
               /\ call' = Call("paintGL", NoFile, "", VTKVolume)
               /\ UNCHANGED <<canvas, alive>>
       ELSE /\ canvas' = [canvas EXCEPT !.m_modes =
                             [mode \in DOMAIN @ \cup {canvas.m_active_mode} |->
                                 IF mode \in DOMAIN @ THEN @[mode]
                                 ELSE EmptyFunction]]
            /\ frame' = NoFrame
            /\ alive' = FALSE
            /\ call' = Call("paintGL", NoFile, bad_function_call, VTKVolume)
            /\ UNCHANGED gl
    /\ UNCHANGED <<little_endian, volume, m_raycasting_volume, m_shaders, ui>>

\* MainWindow::load_volume(path), on a canvas that is initialised.
load_volume(file) ==
    /\ alive
    /\ ~m_raycasting_volume.null
    /\ \E out \in MainWindow_load_volume(Window(ui, canvas),
                                         m_raycasting_volume, gl, file,
                                         little_endian) :
          /\ m_raycasting_volume' = out.rcv
          /\ gl' = out.gl
          /\ volume' = out.volume
          /\ ui' = out.w.ui
          /\ canvas' = out.w.canvas
          /\ alive' = ~out.escaped
          /\ call' = Call("load_volume", file, out.what, VTKVolume)
    /\ frame' = NoFrame
    /\ UNCHANGED <<little_endian, m_shaders>>

\* The windows a handler of the threshold controls leaves (outcomes), or
\* the end of the program: while m_raycasting_volume is null, setThreshold
\* reads through a null pointer.
Handled(op, outcomes) ==
    /\ alive
    /\ \/ \E w \in outcomes :
             /\ ui' = w.ui
             /\ canvas' = w.canvas
             /\ UNCHANGED alive
       \/ /\ m_raycasting_volume.null
          /\ alive' = FALSE
          /\ UNCHANGED <<ui, canvas>>
    /\ call' = Call(op, NoFile, "", VTKVolume)
    /\ frame' = NoFrame
    /\ UNCHANGED <<little_endian, volume, m_raycasting_volume, m_shaders, gl>>

\* The slider is moved to value.
threshold_slider_setValue(value) ==
    /\ value # ui.threshold_slider.value
    /\ Handled("threshold_slider", slider_setValue(
                   Window(ui, canvas), m_raycasting_volume, value))

\* The spin box is given value.
threshold_spinbox_setValue(value) ==
    /\ Bound(ui.threshold_spinbox.minimum, value,
             ui.threshold_spinbox.maximum) # ui.threshold_spinbox.value
    /\ Handled("threshold_spinbox", spinbox_setValue(
                   Window(ui, canvas), m_raycasting_volume, value))

\* The order std::map keeps the names of the modes in.
KeyOrder == <<"", "Alpha blending", "Isosurface", "MIP", "Wireframe">>

\* The first of the modes getModes returns: the item of the combo box
\* that becomes the current one.
FirstMode(modes) ==
    KeyOrder[MinOf({i \in DOMAIN KeyOrder : KeyOrder[i] \in modes})]

\* MainWindow::MainWindow(parent), before anything else: the canvas is
\* given the step length of its control, valueChanged of the slider is
\* emitted with its value, which calls on_threshold_slider_valueChanged
\* and through it setThreshold while m_raycasting_volume is null, then the
\* background is set and the first mode becomes the current one.
MainWindow ==
    /\ alive
    /\ call.op = "none"
    /\ \E arg1 \in StepLengths :
          LET stepped == Window(ui, setStepLength(canvas, arg1))
          IN \/ \E w \in on_threshold_slider_valueChanged(
                             stepped, m_raycasting_volume,
                             ui.threshold_slider.value) :
                   /\ ui' = w.ui
                   /\ canvas' = setMode(setBackground(w.canvas, "black"),
                                        FirstMode(getModes(w.canvas)))
                   /\ UNCHANGED alive
             \/ /\ m_raycasting_volume.null
                /\ canvas' = stepped.canvas
                /\ alive' = FALSE
                /\ UNCHANGED ui
    /\ call' = Call("MainWindow", NoFile, "", VTKVolume)
    /\ frame' = NoFrame
    /\ UNCHANGED <<little_endian, volume, m_raycasting_volume, m_shaders, gl>>

\* The other members change.
Set(op, changed) ==
    /\ alive
    /\ canvas' = changed
    /\ call' = Call(op, NoFile, "", VTKVolume)
    /\ frame' = NoFrame
    /\ UNCHANGED <<little_endian, volume, m_raycasting_volume, m_shaders, gl,
                   ui, alive>>

\* MainWindow::on_stepLength_valueChanged(arg1).
on_stepLength_valueChanged(arg1) ==
    Set("setStepLength", setStepLength(canvas, arg1))

\* MainWindow::on_mode_currentTextChanged(mode), and any other call of
\* setMode.
on_mode_currentTextChanged(mode) == Set("setMode", setMode(canvas, mode))

\* MainWindow::on_background_clicked(), the dialog returning a valid
\* colour.
on_background_clicked(colour) ==
    Set("setBackground", setBackground(canvas, colour))

\* A QWheelEvent of the canvas.
QWheelEvent(delta) ==
    \E moved \in wheelEvent(canvas, delta) : Set("wheelEvent", moved)

NextCanvas ==
    \/ initializeGL
    \/ \E g \in Geometry : resizeGL(g[1], g[2], g[3])
    \/ paintGL
    \/ \E file \in CanvasFiles : load_volume(file)
    \/ \E arg1 \in StepLengths : on_stepLength_valueChanged(arg1)
    \/ \E mode \in ModeNames : on_mode_currentTextChanged(mode)
    \/ \E delta \in Deltas : QWheelEvent(delta)

\* The canvas is looked at on a little-endian host: the byte order is the
\* matter of the parser alone.
InitCanvas == Init /\ little_endian

\* The canvas from its construction on: its volumes, its size, its modes,
\* its step length and its distance change, and it paints.
SpecCanvas == InitCanvas /\ [][NextCanvas]_vars

NextWindow ==
    \/ MainWindow
    \/ initializeGL
    \/ paintGL
    \/ \E file \in WindowFiles : load_volume(file)
    \/ \E value \in SliderValues : threshold_slider_setValue(value)
    \/ \E value \in SpinboxValues : threshold_spinbox_setValue(value)
    \/ \E mode \in {"Isosurface"} : on_mode_currentTextChanged(mode)
    \/ \E colour \in Colours : on_background_clicked(colour)

\* The window from its construction on: volumes are loaded, the threshold
\* controls and the background change, and the canvas paints in the mode
\* that has a threshold.
SpecWindow == Init /\ [][NextWindow]_vars

\* The lines of a header that hold a directive or the marker, as
\* load_volume's comment places them, and the other lines after the first.
DirectiveLines == {3, 5, 6, 7, 9}

OtherLines == {2, 4, 8, 10}

\* The ways of placing the five lines among lines 2..10.
Placements ==
    {pl \in [DirectiveLines -> 2..header_line_count] :
        \A a, b \in DirectiveLines : a # b => pl[a] # pl[b]}

\* The header with its five lines placed by pl and the other lines, in
\* their order, on the lines left.
Permuted(lines, pl) ==
    LET taken == {pl[a] : a \in DirectiveLines}
        rank(S, j) == Cardinality({q \in S : q <= j})
        nth(S, k) == CHOOSE q \in S : rank(S, q) = k
    IN [j \in 1..header_line_count |->
           IF j = 1 THEN lines[1]
           ELSE IF j \in taken
           THEN lines[CHOOSE a \in DirectiveLines : pl[a] = j]
           ELSE lines[nth(OtherLines,
                          rank((2..header_line_count) \ taken, j))]]

\* Every placement of the lines of a sound file of either marker.
PermutedFiles ==
    {[BaseFile("vol.vtk", marker, "short") EXCEPT
          !.lines = Permuted(@, pl), !.fault = "permuted"]
     : marker \in Markers, pl \in Placements}

\* A second occurrence of each directive and of the marker, which says
\* something else than the first.
SecondOccurrences(marker) ==
    {Line("DIMENSIONS", <<Num(1), Num(1), Num(1)>>),
     Line("ORIGIN", <<Num(0), Num(0), Num(0)>>),
     Line("SPACING", <<Num(2), Num(1), Num(1)>>),
     Line("SCALARS", <<Word("image_data"), Word("unsigned_char")>>),
     Line(IF marker = "BINARY" THEN "ASCII" ELSE "BINARY", <<>>)}

\* A sound file with one more occurrence of a directive or of the marker,
\* before all the others (line 2) or after them (line 10).
RepeatingFiles ==
    UNION {
        {[BaseFile("vol.vtk", marker, "short") EXCEPT
              !.lines[at] = second, !.fault = "repeated"]
         : at \in {2, header_line_count},
           second \in SecondOccurrences(marker)}
        : marker \in Markers}

HeaderFiles == PermutedFiles \cup RepeatingFiles

NextHeader == \E file \in HeaderFiles : Construct(file)

\* The order of the lines is looked at on a little-endian host, where the
\* elements of a binary file are swapped.
InitHeader == Init /\ little_endian

\* The parser on headers whose lines are permuted or repeated.
SpecHeader == InitHeader /\ [][NextHeader]_vars

\* ------------------------------------------------------------------------
\* Properties of RayCastVolume::load_volume
\* ------------------------------------------------------------------------

\* The failures of a load by name: no or unrecognised extension, a file
\* that cannot be opened, a missing header line, a corrupted magic number, a
\* header field that is unreadable or unsupported, no BINARY/ASCII marker.
FailsByContract(file) ==
    file.fault \in {"bad name", "missing file", "short header", "empty line",
                    "bad magic", "bad SCALARS", "unsupported type",
                    "bad DIMENSIONS", "bad ORIGIN", "bad SPACING",
                    "no marker"}

LoadFailed == call.op = "setVolume" /\ call.what # ""

\* C1.  Failure containment: a load of a file that fails by contract throws,
\* and a load that throws leaves the RayCastVolume (size, origin, spacing,
\* range, texture names) and the context with its textures exactly as they
\* were, so that the volume loaded before is still the one displayed.
C1_FailureContainment ==
    [][/\ (call'.op = "setVolume" /\ FailsByContract(call'.file))
              => call'.what # ""
       /\ (call'.op = "setVolume" /\ call'.what # "")
              => (m_raycasting_volume' = m_raycasting_volume /\ gl' = gl)]_vars

\* A load of a file with a corrupted magic number has failed while a volume
\* loaded before is in its texture.
C1_Witness ==
    /\ LoadFailed
    /\ call.file.fault = "bad magic"
    /\ call.what = "Not a valid VTK file."
    /\ m_raycasting_volume.m_volume_texture \in gl.textures
    /\ gl.image[m_raycasting_volume.m_volume_texture].data # <<>>

\* ------------------------------------------------------------------------
\* Properties of VTKVolume
\* ------------------------------------------------------------------------

Constructed == call.op = "VTKVolume"

ConstructedOK == Constructed /\ call.what = ""

NormalisedOK == call.op = "uint8_normalised"

WellFormed == call.file.fault = "none"

Voxels(file) == file.dims[1] * file.dims[2] * file.dims[3]

TrueMin(file) == MinOf(Range(file.values))

TrueMax(file) == MaxOf(Range(file.values))

Directives == {"SCALARS", "DIMENSIONS", "ORIGIN", "SPACING"}

Absent(file, d) == \A i \in 1..header_line_count : file.lines[i].key # d

ErrorNaming(d) ==
    CASE d = "SCALARS" -> "Cannot read volume data type."
      [] d = "DIMENSIONS" -> "Cannot read volume dimension."
      [] d = "ORIGIN" -> "Cannot read volume origin."
      [] d = "SPACING" -> "Cannot read volume spacing."

\* C2.  A file that opens, has its ten header lines and the magic number,
\* and lacks one of the directives SCALARS, DIMENSIONS, ORIGIN, SPACING,
\* makes the load throw the error that names a field it lacks (so that no
\* sample is read with a field this header did not set).
C2_MissingDirectiveFails ==
    (/\ Constructed
     /\ call.file.exists
     /\ Len(call.file.lines) >= header_line_count
     /\ \A i \in 1..header_line_count : ~IsEmptyLine(call.file.lines[i])
     /\ call.file.lines[1].key = "# vtk"
     /\ \E d \in Directives : Absent(call.file, d))
        => \E d \in Directives :
               Absent(call.file, d) /\ call.what = ErrorNaming(d)

\* C3.  Range correctness: after a load of a file that follows the format,
\* the range is the least and the greatest of the sample values the file
\* holds, whatever their type and sign.
C3_RangeIsTrueMinMax ==
    (ConstructedOK /\ WellFormed)
        => volume.m_range = [first |-> Dbl(TrueMin(call.file)),
                             second |-> Dbl(TrueMax(call.file))]

\* The C++ type a tag stands for.
TagType(tag) ==
    CASE tag = "Int8" -> "char"
      [] tag = "Uint8" -> "unsigned char"
      [] tag = "Int16" -> "short"
      [] tag = "Uint16" -> "unsigned short"
      [] tag = "Int32" -> "int"
      [] tag = "Uint32" -> "unsigned int"
      [] tag = "Int64" -> "long"
      [] tag = "Uint64" -> "unsigned long"
      [] tag = "Float" -> "float"
      [] tag = "Double" -> "double"

\* C4.  One element type per keyword: the tag read_data_type sets stands
\* for the type the keyword declares, and load_volume reads the samples,
\* and uint8_normalised reinterprets them, as that very type.
C4_OneElementType ==
    (ConstructedOK /\ WellFormed)
        => /\ volume.m_datatype \in DataType
           /\ TagType(volume.m_datatype) = DeclaredType(call.file.keyword)
           /\ LoadElementType(volume.m_datatype)
                  = DeclaredType(call.file.keyword)
           /\ NormaliseElementType(volume.m_datatype)
                  = DeclaredType(call.file.keyword)

\* The i-th element of the buffer uint8_normalised started from, as it
\* reads it.
ElementBefore(i) ==
    LET T == NormaliseElementType(call.before.m_datatype)
    IN HostValue(T, SubSeq(call.before.m_data, (i - 1) * SizeOf(T) + 1,
                           i * SizeOf(T)), little_endian)

\* 255 * (value - range.min) and range.max - range.min, as fractions of
\* the same unit.
QNum(i) == 255 * DSub(Dbl(ElementBefore(i)), call.before.m_range.first)

QDen == DSub(call.before.m_range.second, call.before.m_range.first)

\* uint8_normalised has run on a tagged volume whose range is not
\* degenerate.
NormalisedNonDegenerate ==
    /\ NormalisedOK
    /\ call.before.m_datatype \in DataType
    /\ QDen > 0

\* The element i and the range are numbers below the magnitude Huge, and
\* the quotient of voxel i is one whose integral part a byte can hold.
Holds(i) ==
    /\ Abs(ElementBefore(i)) < Huge
    /\ Abs(call.before.m_range.first) < Dbl(Huge)
    /\ Abs(call.before.m_range.second) < Dbl(Huge)
    /\ QNum(i) > 0 - QDen
    /\ QNum(i) \div 256 < QDen
    /\ QDen = DBL_MIN => QNum(i) = 0

C6_NormalisedWithinBounds ==
    (NormalisedOK /\ call.before.m_datatype \in DataType /\ WellFormed
     /\ TrueMin(call.file) < TrueMax(call.file))
        => /\ QDen > 0
           /\ \A i \in 1..Voxels(call.file) :
                  /\ QNum(i) >= 0
                  /\ QNum(i) <= 255 * QDen
                  /\ call.file.values[i] = TrueMin(call.file)
                         => volume.m_data[i] = 0
                  /\ call.file.values[i] = TrueMax(call.file)
                         => volume.m_data[i] = 255

\* C7.  Degenerate range guard: normalising a constant volume divides by no
\* zero range (neither would setThreshold, whose divisor is the same
\* range.max - range.min), and leaves one defined buffer, whatever the
\* conversion of the build.
C7_DegenerateRangeGuarded ==
    (NormalisedOK /\ call.before.m_datatype \in DataType /\ WellFormed
     /\ TrueMin(call.file) = TrueMax(call.file))
        => /\ QDen # 0
           /\ DSub(volume.m_range.second, volume.m_range.first) # 0
           /\ Cardinality(uint8_normalised(call.before, little_endian)) = 1

\* The number of white-space separated tokens from pos on.
RECURSIVE CountTokens(_, _, _)
CountTokens(bytes, pos, inside) ==
    IF pos > Len(bytes) THEN 0
    ELSE IF IsSpace(bytes[pos]) THEN CountTokens(bytes, pos + 1, FALSE)
    ELSE (IF inside THEN 0 ELSE 1) + CountTokens(bytes, pos + 1, TRUE)

\* The number of whole elements the file holds after its header.
ElementsHeld(file) ==
    IF file.marker = "BINARY"
    THEN Len(file.payload) \div SizeOf(DeclaredType(file.keyword))
    ELSE CountTokens(file.payload, 1, FALSE)

\* C8.  Truncated data: a load of a file whose header is sound and that
\* holds fewer than nx*ny*nz elements throws.
C8_TruncatedDataFails ==
    (/\ Constructed
     /\ call.file.fault \in {"truncated", "cut short"}
     /\ ElementsHeld(call.file) < Voxels(call.file))
        => call.what # ""

\* C9.  Buffer length: after a load of a file that follows the format the
\* buffer holds nx*ny*nz elements of the declared type, and after
\* uint8_normalised one byte per voxel.
C9_BufferLength ==
    /\ (ConstructedOK /\ WellFormed)
           => Len(volume.m_data) = Voxels(call.file)
                  * SizeOf(DeclaredType(call.file.keyword))
    /\ (NormalisedOK /\ WellFormed)
           => Len(volume.m_data) = Voxels(call.file)

\* The i-th sample of the loaded volume, read as the declared type.
Sample(i) ==
    LET T == DeclaredType(call.file.keyword)
    IN HostValue(T, SubSeq(volume.m_data, (i - 1) * SizeOf(T) + 1,
                           i * SizeOf(T)), little_endian)

\* C10.  ASCII decoding: after a load of an ASCII file that follows the
\* format, the i-th sample is the value of the i-th token and the range is
\* that of the tokens.
C10_AsciiDecoding ==
    (ConstructedOK /\ WellFormed /\ call.file.marker = "ASCII")
        => /\ Len(volume.m_data) >= Voxels(call.file)
                  * SizeOf(DeclaredType(call.file.keyword))
           /\ \A i \in 1..Voxels(call.file) : Sample(i) = call.file.values[i]
           /\ volume.m_range = [first |-> Dbl(TrueMin(call.file)),
                                second |-> Dbl(TrueMax(call.file))]

\* The bytes of element i in the file, and in the loaded buffer.
FileBytes(i) ==
    LET size == SizeOf(DeclaredType(call.file.keyword))
    IN SubSeq(call.file.payload, (i - 1) * size + 1, i * size)

MemoryBytes(i) ==
    LET size == SizeOf(DeclaredType(call.file.keyword))
    IN SubSeq(volume.m_data, (i - 1) * size + 1, i * size)

\* A binary file that follows the format is loaded on a little-endian host.
LoadedBinaryOnLittleEndian ==
    /\ ConstructedOK
    /\ WellFormed
    /\ call.file.marker = "BINARY"
    /\ little_endian

\* C11.  Endianness: on a little-endian host every element of a binary
\* file is held with its bytes reversed once (an element of one byte as it
\* is in the file), so that the element read in host order has the value
\* its big-endian bytes encode; reversing the bytes twice gives them back.
C11_BigEndianDecoded ==
    LoadedBinaryOnLittleEndian
        => \A i \in 1..Voxels(call.file) :
               /\ MemoryBytes(i) = Reverse(FileBytes(i))
               /\ Len(FileBytes(i)) = 1 => MemoryBytes(i) = FileBytes(i)
               /\ Sample(i) = call.file.values[i]
               /\ ValueOf(DeclaredType(call.file.keyword), FileBytes(i))
                      = call.file.values[i]
               /\ swap_byte_order(swap_byte_order(FileBytes(i),
                                                  Len(FileBytes(i))),
                                  Len(FileBytes(i))) = FileBytes(i)

\* A 16-bit 300 and a 32-bit 70000, whose bytes are no palindromes, have
\* been loaded on a little-endian host.
C11_Witness ==
    /\ LoadedBinaryOnLittleEndian
    /\ \/ /\ call.file.keyword = "short"
          /\ call.file.values = <<300>>
          /\ call.file.payload = <<1, 44>>
          /\ volume.m_data = <<44, 1>>
       \/ /\ call.file.keyword = "int"
          /\ call.file.values = <<70000>>
          /\ call.file.payload = <<0, 1, 17, 112>>
          /\ volume.m_data = <<112, 17, 1, 0>>

\* ------------------------------------------------------------------------
\* Properties of RayCastVolume and RayCastCanvas
\* ------------------------------------------------------------------------

\* The canvas holds a volume whose size and spacing are positive.
HoldsPositiveVolume ==
    /\ ~m_raycasting_volume.null
    /\ \A i \in 1..3 : /\ m_raycasting_volume.m_size[i] > 0
                       /\ m_raycasting_volume.m_spacing[i] > 0

\* C12.  Geometric frame: for a volume of positive size and spacing,
\* scale_factor is the greatest of size*spacing over the axes, extent is
\* size*spacing over scale_factor with its largest component exactly 1,
\* top(false) is half the extent and bottom(false) its opposite; for size
\* (2,1,1) and spacing (1,1,1): extent (1, 1/2, 1/2), scale_factor 2,
\* top (1/2, 1/4, 1/4), bottom (-1/2, -1/4, -1/4).
C12_GeometricFrame ==
    HoldsPositiveVolume
        => LET rcv == m_raycasting_volume
               e == SizeBySpacing(rcv)
           IN /\ \A i \in 1..3 : scale_factor(rcv) >= e[i]
              /\ \E i \in 1..3 : scale_factor(rcv) = e[i]
              /\ \A i \in 1..3 :
                     /\ extent(rcv)[i].kind = "finite"
                     /\ extent(rcv)[i].num * scale_factor(rcv)
                            = e[i] * extent(rcv)[i].den
                     /\ extent(rcv)[i].num <= extent(rcv)[i].den
                     /\ top(rcv, FALSE)[i].num * 2 * extent(rcv)[i].den
                            = extent(rcv)[i].num * top(rcv, FALSE)[i].den
                     /\ bottom(rcv, FALSE)[i] = Negated(top(rcv, FALSE)[i])
              /\ \E i \in 1..3 : extent(rcv)[i] = Ratio(1, 1)
              /\ (rcv.m_size = <<2, 1, 1>> /\ rcv.m_spacing = <<1, 1, 1>>)
                     => /\ extent(rcv)
                               = <<Ratio(1, 1), Ratio(1, 2), Ratio(1, 2)>>
                        /\ scale_factor(rcv) = 2
                        /\ top(rcv, FALSE)
                               = <<Ratio(1, 2), Ratio(1, 4), Ratio(1, 4)>>
                        /\ bottom(rcv, FALSE)
                               = <<Ratio(0 - 1, 2), Ratio(0 - 1, 4),
                                   Ratio(0 - 1, 4)>>

\* The volume of size (2,1,1) and spacing (1,1,1) has been loaded.
C12_Witness ==
    /\ HoldsPositiveVolume
    /\ call.op = "setVolume"
    /\ call.what = ""
    /\ m_raycasting_volume.m_size = <<2, 1, 1>>
    /\ m_raycasting_volume.m_spacing = <<1, 1, 1>>
    /\ top(m_raycasting_volume, FALSE)[2] = Ratio(1, 4)

\* The members of the canvas and of its volume that a frame is computed
\* from.
RenderState ==
    <<m_raycasting_volume, m_shaders,
      [canvas EXCEPT !.m_active_mode = "", !.m_modes = << >>]>>

Painted == call.op = "paintGL" /\ frame.drawn

\* C13.  Mode isolation: setMode changes the active mode name and nothing
\* else of the canvas, of its volume (size, spacing, origin, range,
\* textures) or of the context; paintGL changes none of the members a
\* frame is computed from; and the program of the active mode receives the
\* uniforms the program of any other mode would: model matrix, top,
\* bottom, step length, threshold and background do not depend on the mode.
C13_ModeIsolation ==
    [][/\ call'.op = "setMode"
              => /\ canvas' = [canvas EXCEPT
                                  !.m_active_mode = canvas'.m_active_mode]
                 /\ m_raycasting_volume' = m_raycasting_volume
                 /\ m_shaders' = m_shaders
                 /\ gl' = gl
       /\ call'.op = "paintGL" => RenderState' = RenderState
       /\ (call'.op = "paintGL" /\ frame'.drawn)
              => /\ frame'.program = canvas.m_active_mode
                 /\ \A mode \in {"Isosurface", "Alpha blending", "MIP"} :
                        frame'.uniforms
                            = Uniforms([canvas EXCEPT !.m_active_mode = mode],
                                       m_raycasting_volume)
                 /\ frame'.uniforms.modelMatrix
                        = modelMatrix(m_raycasting_volume, FALSE)
                 /\ frame'.uniforms.top = top(m_raycasting_volume, FALSE)
                 /\ frame'.uniforms.bottom = bottom(m_raycasting_volume, FALSE)
                 /\ frame'.uniforms.step_length = canvas.m_stepLength
                 /\ frame'.uniforms.threshold = canvas.m_threshold
                 /\ frame'.uniforms.background_colour = canvas.m_background]_vars

\* A frame of a loaded volume has been drawn in the MIP mode, with a step
\* length and a threshold that were set.
C13_Witness ==
    /\ Painted
    /\ frame.program = "MIP"
    /\ frame.volume.data # <<>>
    /\ frame.uniforms.step_length = Ratio(1, 100)
    /\ frame.uniforms.threshold # Indeterminate
    /\ frame.uniforms.top = <<Ratio(1, 2), Ratio(1, 4), Ratio(1, 4)>>

\* A load has succeeded: load_volume has given the RayCastVolume a texture.
HasLoaded == ~m_raycasting_volume.null /\ m_raycasting_volume.m_volume_texture # 0

\* C14.  Renderer state machine: a paintGL that draws does so once a volume
\* has been successfully loaded; the frame it computes (model matrix, top,
\* bottom) is that of a loaded volume, and the texture its volume sampler
\* reads is one a load has filled.
C14_ReadyBeforePaint ==
    Painted
        => /\ HasLoaded
           /\ m_raycasting_volume.m_volume_texture \in gl.textures
           /\ gl.bound[0]["GL_TEXTURE_3D"] = m_raycasting_volume.m_volume_texture
           /\ \A i \in 1..3 : /\ frame.uniforms.top[i].kind = "finite"
                              /\ frame.uniforms.bottom[i].kind = "finite"
                              /\ frame.uniforms.modelMatrix.scale[i].kind = "finite"

\* The textures of the context that are no noise texture of the canvas.
VolumeTextures == gl.textures \ {m_raycasting_volume.m_noise_texture}

\* C15.  Volume texture lifecycle: once a load has succeeded, exactly one
\* volume texture is live, the one the RayCastVolume names; a load that
\* succeeds puts its own data in it, whatever was loaded before, and a
\* load that fails leaves it as it was, so that it holds the volume of the
\* last successful load; and when a load returns, no 3D texture is bound
\* to either texture unit.
C15_VolumeTextureLifecycle ==
    [][/\ HasLoaded'
              => /\ VolumeTextures' = {m_raycasting_volume'.m_volume_texture}
                 /\ gl'.image[m_raycasting_volume'.m_volume_texture].size
                        = m_raycasting_volume'.m_size
       /\ (~m_raycasting_volume'.null /\ ~HasLoaded') => VolumeTextures' = {}
       /\ (call'.op = "load_volume" /\ call'.what = "")
              => /\ HasLoaded'
                 /\ gl'.image[m_raycasting_volume'.m_volume_texture]
                        = [size |-> volume'.m_size, data |-> volume'.m_data]
                 /\ m_raycasting_volume'.m_size = call'.file.dims
                 /\ Len(volume'.m_data) = Voxels(call'.file)
                 /\ \A unit \in {0, 1} : gl'.bound[unit]["GL_TEXTURE_3D"] = 0
       /\ (call'.op = "load_volume" /\ call'.what # "" /\ HasLoaded)
              => /\ m_raycasting_volume'.m_volume_texture
                        = m_raycasting_volume.m_volume_texture
                 /\ gl'.image[m_raycasting_volume'.m_volume_texture]
                        = gl.image[m_raycasting_volume.m_volume_texture]]_vars

\* A second volume has been loaded after a frame of the first was drawn:
\* texture unit 1 is the active one, and the texture holds the new volume.
C15_Witness ==
    /\ call.op = "load_volume"
    /\ call.what = ""
    /\ call.file.keyword = "short"
    /\ gl.active = 1
    /\ VolumeTextures = {m_raycasting_volume.m_volume_texture}
    /\ gl.image[m_raycasting_volume.m_volume_texture].data = volume.m_data
    /\ Len(volume.m_data) = MaxVoxels

\* The textures of the context that are no volume texture of the canvas.
NoiseTextures == gl.textures \ {m_raycasting_volume.m_volume_texture}

\* The width and height of the widget in pixels: the logical size scaled
\* by the device pixel ratio.
ScaledSize == <<scaled_width(canvas), scaled_height(canvas)>>

\* C16.  The noise texture tracks the viewport: initializeGL and every
\* resizeGL leave exactly one noise texture, the one the RayCastVolume
\* names, the one before being destroyed; a resizeGL sets the viewport to
\* the width and height of the widget scaled by the device pixel ratio;
\* and from the first resizeGL on the noise texture has the width and
\* height of the viewport, which are those scaled ones.
C16_NoiseTracksViewport ==
    [][/\ call'.op \in {"initializeGL", "resizeGL"}
              => /\ NoiseTextures' = {m_raycasting_volume'.m_noise_texture}
                 /\ gl'.image[m_raycasting_volume'.m_noise_texture].size
                        = <<gl'.viewport[1], gl'.viewport[2], 1>>
       /\ call'.op = "resizeGL"
              => /\ gl'.viewport = ScaledSize'
                 /\ canvas'.m_viewportSize = ScaledSize'
                 /\ m_raycasting_volume.m_noise_texture \in gl'.textures
                        => m_raycasting_volume'.m_noise_texture
                               = m_raycasting_volume.m_noise_texture
       /\ (~m_raycasting_volume'.null /\ canvas'.m_viewportSize # <<0, 0>>)
              => /\ NoiseTextures' = {m_raycasting_volume'.m_noise_texture}
                 /\ gl'.image[m_raycasting_volume'.m_noise_texture].size
                        = <<ScaledSize'[1], ScaledSize'[2], 1>>
                 /\ gl'.viewport = ScaledSize']_vars

\* The widget has been resized to 3 by 2 at a pixel ratio of 1.5 after a
\* resize to another size, a volume is loaded, and the noise texture is 4
\* by 3.
C16_Witness ==
    /\ call.op = "resizeGL"
    /\ canvas.width = 3
    /\ canvas.devicePixelRatio = 3
    /\ HasLoaded
    /\ gl.textures = {m_raycasting_volume.m_noise_texture,
                      m_raycasting_volume.m_volume_texture}
    /\ gl.image[m_raycasting_volume.m_noise_texture].size = <<4, 3, 1>>

\* C17.  Camera distance clamp: m_distExp starts at -200 and is within
\* [-1800, 600] at the end of every wheelEvent, whatever the delta, and in
\* every other state, so that the view matrix of every frame is computed
\* from a level within these limits.
C17_DistanceClamped ==
    /\ canvas.m_distExp >= 0 - 1800
    /\ canvas.m_distExp <= 600
    /\ call.op = "none" => canvas.m_distExp = 0 - 200
    /\ Painted => /\ frame.uniforms.ViewMatrix >= 0 - 1800
                  /\ frame.uniforms.ViewMatrix <= 600
                  /\ frame.uniforms.ViewMatrix = canvas.m_distExp

\* A wheel event has brought the level back to -200: it was at the lower
\* limit before, where a wheel event had clamped it.
C17_Witness ==
    /\ call.op = "wheelEvent"
    /\ canvas.m_distExp = 0 - 200

\* The DIMENSIONS of the file are those of no volume: a count is zero or
\* negative.
UnusableDimensions(file) == \E i \in 1..3 : file.dims[i] <= 0

\* C18.  Every failure of a load is caught: no load ends the program, a
\* load that throws has thrown a std::runtime_error, which
\* MainWindow::load_volume catches and shows, and a load of a file whose
\* header declares a zero or negative count throws.
C18_EveryFailureCaught ==
    call.op = "load_volume"
        => /\ alive
           /\ ExceptionType(call.what) \in {"none", "std::runtime_error"}
           /\ (FailsByContract(call.file) \/ UnusableDimensions(call.file))
                  => call.what # ""

\* The dynamic range of the volume the canvas holds.
DynamicRange ==
    Float(DSub(m_raycasting_volume.m_range.second,
               m_raycasting_volume.m_range.first))

\* The threshold in intensity units: the value of the spin box.
RawThreshold == ui.threshold_spinbox.value

\* C19.  Threshold normalisation follows the loaded volume: a successful
\* MainWindow::load_volume leaves the canvas with the range of the volume
\* it read and with the bounds of the spin box at that range; whenever the
\* threshold has been set on an initialised canvas it is the raw threshold
\* divided by the dynamic range of the volume the canvas holds now; and
\* the threshold uniform of every frame is that quotient.
C19_ThresholdFollowsVolume ==
    /\ (call.op = "load_volume" /\ call.what = "")
           => /\ m_raycasting_volume.m_range = volume.m_range
              /\ canvas.m_threshold = Over(RawThreshold, DynamicRange)
              /\ Less(Float(volume.m_range.first), Float(volume.m_range.second))
                     => /\ ui.threshold_spinbox.minimum
                               = Float(volume.m_range.first)
                        /\ ui.threshold_spinbox.maximum
                               = Float(volume.m_range.second)
    /\ (~m_raycasting_volume.null /\ canvas.m_threshold # Indeterminate)
           => canvas.m_threshold = Over(RawThreshold, DynamicRange)
    /\ Painted => frame.uniforms.threshold = canvas.m_threshold

\* The short volume has been loaded with the slider at 50 per cent: the
\* threshold is in the middle of its range, 300 to 65533, and a frame is
\* drawn with one half as its uniform.
C19_Witness ==
    /\ Painted
    /\ HasLoaded
    /\ m_raycasting_volume.m_range = [first |-> Dbl(300), second |-> Dbl(65533)]
    /\ ui.threshold_slider.value = 50
    /\ RawThreshold = Ratio(Dbl(300) + Dbl(65533), 2)
    /\ frame.uniforms.threshold = Over(RawThreshold, DynamicRange)
    /\ frame.uniforms.threshold = Ratio(Dbl(300) + Dbl(65533), 2 * Dbl(65233))

\* The modes the constructor registers and the programs initializeGL
\* adds.
Registered == {"Isosurface", "Alpha blending", "MIP"}

\* C20.  Modes are fixed at initialization: getModes returns exactly the
\* three names the constructor registered, the shader table holds exactly
\* the three programs of initializeGL once it has run, and a paintGL whose
\* active mode is not registered draws nothing.
C20_ModesFixed ==
    /\ getModes(canvas) = Registered
    /\ (alive /\ ~m_raycasting_volume.null) => m_shaders = Registered
    /\ (call.op = "paintGL" /\ canvas.m_active_mode \notin Registered)
           => ~frame.drawn

\* The members VTKVolume::load_volume may assign: data type, size, origin,
\* spacing, range and sample buffer.
Members(vol) ==
    <<vol.m_datatype, vol.m_size, vol.m_origin, vol.m_spacing, vol.m_range,
      vol.m_data>>

\* C21.  Atomic commit in the parser: when VTKVolume::load_volume fails at
\* any step, the data type, size, origin, spacing, range and sample buffer
\* of the object are what they were before the call.
C21_AtomicCommit ==
    (call.op = "VTKVolume" /\ call.what # "")
        => Members(volume) = Members(call.before)

\* The lines of the header of the file just read that start with key.
Occurrences(keys) ==
    {i \in 1..header_line_count : call.file.lines[i].key \in keys}

LastOccurrence(key) == call.file.lines[MaxOf(Occurrences({key}))]

FirstMarker == call.file.lines[MinOf(Occurrences(Markers))].key

Numbers(line) == <<line.args[1].n, line.args[2].n, line.args[3].n>>

ParsedHeader ==
    /\ call.op = "VTKVolume"
    /\ call.file.fault \in {"permuted", "repeated"}

\* C22.  Header order independence: with each of DIMENSIONS, ORIGIN,
\* SPACING, SCALARS and the marker once among lines 2..10, the parsed size,
\* origin, spacing, data type and binary flag are those the file was
\* written from, wherever the lines are; of a directive that occurs more
\* than once the last occurrence is parsed, of the marker the first one.
C22_HeaderOrderIndependence ==
    ParsedHeader =>
        /\ call.what = ""
        /\ volume.m_size = Numbers(LastOccurrence("DIMENSIONS"))
        /\ volume.m_origin = Numbers(LastOccurrence("ORIGIN"))
        /\ volume.m_spacing = Numbers(LastOccurrence("SPACING"))
        /\ volume.m_datatype =
               TypeKeyword[LastOccurrence("SCALARS").args[2].w]
        /\ \E rd \in read_data(LoadElementType(volume.m_datatype),
                               call.file.payload, FirstMarker = "BINARY",
                               element_count(volume), little_endian) :
              /\ volume.m_data = rd.image_data
              /\ volume.m_range = rd.range
        /\ call.file.fault = "permuted" =>
              /\ volume.m_size = call.file.dims
              /\ volume.m_origin = call.file.origin
              /\ volume.m_spacing = call.file.spacing
              /\ volume.m_datatype = TypeKeyword[call.file.keyword]
              /\ FirstMarker = call.file.marker

\* A header that ends with its marker and starts, after the magic line,
\* with SCALARS has been parsed.
C22_Witness ==
    /\ ParsedHeader
    /\ call.what = ""
    /\ call.file.fault = "permuted"
    /\ call.file.lines[header_line_count].key = "ASCII"
    /\ call.file.lines[2].key = "SCALARS"
    /\ volume.m_size = <<MaxVoxels, 1, 1>>
    /\ volume.m_datatype = "Int16"

\* A header with BINARY on line 3 and ASCII on line 10 has been read as
\* binary, and one with two DIMENSIONS lines by the second.
C22_WitnessRepeated ==
    /\ ParsedHeader
    /\ call.what = ""
    /\ call.file.fault = "repeated"
    /\ \/ /\ call.file.lines[3].key = "BINARY"
          /\ call.file.lines[header_line_count].key = "ASCII"
          /\ volume.m_data = call.file.payload
       \/ /\ call.file.lines[header_line_count].key = "DIMENSIONS"
          /\ volume.m_size = <<1, 1, 1>>

\* The operation just done has called create_noise.
NoiseCreated == call.op \in {"initializeGL", "resizeGL"}

\* C23.  create_noise stays inside its buffer: the fill loop writes one
\* byte per texel, at the indices 0..width*height-1, and never at or
\* beyond index width*height; nothing undefined ends the process.
C23_NoiseWithinBuffer ==
    NoiseCreated =>
        /\ call.noise.length = gl.viewport[1] * gl.viewport[2]
        /\ call.noise.written = 0..(call.noise.length - 1)
        /\ ~OutOfBounds(call.noise)
        /\ alive

\* The operations that call setThreshold, and with it getRange.
ThresholdSet == {"MainWindow", "threshold_slider", "threshold_spinbox"}

\* The operations that read or call through m_raycasting_volume.
UsesVolume == ThresholdSet \cup {"load_volume", "setVolume", "resizeGL",
                                 "paintGL"}

\* C24.  No use of the volume resource before it exists: whatever the
\* order of the events, the constructor of the window included, an
\* operation that goes through m_raycasting_volume finds it set, and a
\* threshold it sets is computed from a range that was read.
C24_NoUseBeforeInit ==
    /\ call.op \in UsesVolume => ~m_raycasting_volume.null
    /\ call.op \in ThresholdSet => canvas.m_threshold # Indeterminate

====
